---------------------------- MODULE Spec2Model ----------------------------
(***************************************************************************)
(* Pomodoro clock engine (internal/clock): ClockRunner, StateManager,      *)
(* SessionManager, StatisticsManager, TimerManager, PersistenceManager and *)
(* ResumeManager.                                                          *)
(*                                                                         *)
(* Time is counted in ticks; TicksPerSecond ticks make one second.  The    *)
(* control operations run on one caller thread that owns cr.mu from the    *)
(* first step of an operation to its return; each time.AfterFunc callback  *)
(* runs on a goroutine of its own and never takes cr.mu.  A step of a      *)
(* thread holds at most one write to shared memory, together with the      *)
(* reads that feed it; a section under tm.mu is one step.  Goroutines are  *)
(* fast compared with a tick: the clock advances only when no operation    *)
(* and no callback is in progress and no armed timer is due.               *)
(***************************************************************************)
EXTENDS Integers, Sequences, FiniteSets, TLC

\* Lifecycle phases, clock_runner.go:13-19
StateIdle == "I"
StateWorking == "W"
StateShortBreak == "SB"
StateLongBreak == "LB"
StatePaused == "P"

ActiveStates == {StateWorking, StateShortBreak, StateLongBreak}
KnownStates == ActiveStates \cup {StateIdle, StatePaused}

\* Session configuration of the SessionManager (schedule and durations, in ticks)
schedule == <<StateWorking, StateShortBreak, StateWorking, StateLongBreak>>
workDuration == 3
shortBreakDuration == 1
longBreakDuration == 1

\* Bounds of the model
TicksPerSecond == 2
Horizon == 4
Slack == 1
MaxCalls == 3
MaxHandlers == 2
MaxCrashes == 1
\* Longest schedule given to a session manager driven on its own
MaxLen == 3
\* Periodic saves followed in one run
MaxSaves == 1
MaxTimers == MaxCalls + 1

RECURSIVE SumDur(_)
DurationOf(st) ==
    CASE st = StateWorking -> workDuration
      [] st = StateShortBreak -> shortBreakDuration
      [] st = StateLongBreak -> longBreakDuration
      [] OTHER -> 0
SumDur(i) == IF i = 0 THEN 0 ELSE DurationOf(schedule[i]) + SumDur(i - 1)
MaxTime == SumDur(Len(schedule)) + Slack
OneHour == 3600 * TicksPerSecond
OneDay == 24 * OneHour

VARIABLES
    now,             \* wall clock (ticks)
    up,              \* the process is running (a ClockRunner exists)
    crashes,         \* number of process restarts so far
    calls,           \* number of control operations invoked so far
    state,           \* StateManager.state
    currentSession,  \* SessionManager.currentSession (the cursor)
    history,         \* StatisticsManager.sessionHistory (phase tags)
    stats,           \* StatisticsManager per-type counters
    tm,              \* TimerManager fields
    timers,          \* runtime timers created by time.AfterFunc
    hs,              \* goroutines running handleSessionComplete
    ctl,             \* the caller of Start/Pause/Stop/Skip
    rd,              \* a reader running GetTimeRemaining
    saveTicker,      \* cr.redisSaveTicker != nil (periodic persistence active)
    notified,        \* last phase passed to the on-phase-change callback
    redis,           \* cr.redisPersistence: "none" (nil), "up", or "flaky" (calls may fail)
    store,           \* the systemState hash of the snapshot store
    boot,            \* what the last recovery loaded and when
    sm,              \* a SessionManager driven directly through its own methods
    tl,              \* a goroutine running tickerLoop
    completions,     \* serial numbers of the timers whose tm.onComplete was invoked
    ps,              \* the goroutine of the periodic persistence loop
    parsed           \* a call of ParseScheduling: its argument and its results

vars == <<now, up, crashes, calls, state, currentSession, history, stats, tm, timers,
          hs, ctl, rd, saveTicker, notified, redis, store, boot, sm, tl, completions, ps, parsed>>

--------------------------------------------------------------------------
\* StateManager (state.go)

IsIdleS(s) == s = StateIdle
IsRunningS(s) == s \in ActiveStates
IsPausedS(s) == s = StatePaused
CanStart(s) == s = StateIdle \/ s = StatePaused
\* CanPause that lets a paused session be paused again
CanPauseLoose(s) == ~IsIdleS(s)
CanPause(s) == IsRunningS(s)
CanStop(s) == ~IsIdleS(s)
\* CanSkip is IsRunning() || IsPaused(): each of the two loads the phase
\* anew, and the second is made only when the first finds no running phase
CanSkip(s1, s2) == IsRunningS(s1) \/ IsPausedS(s2)

--------------------------------------------------------------------------
\* SessionManager (session manager)

GetTotalSessions == Len(schedule)

GetCurrentSessionState(cs) ==
    IF cs >= Len(schedule) THEN StateIdle ELSE schedule[cs + 1]

GetCurrentSessionDuration(cs) ==
    IF cs >= Len(schedule) THEN 0 ELSE DurationOf(schedule[cs + 1])

\* NextSession that wraps one call late
NextSessionLateWrap(sch, cs) ==
    IF cs + 1 > Len(sch)
    THEN [cur |-> 0, has |-> FALSE]
    ELSE [cur |-> cs + 1, has |-> TRUE]

\* NextSession on a given schedule: the new cursor and the returned flag
NextSessionOn(sch, cs) ==
    IF cs + 1 >= Len(sch)
    THEN [cur |-> 0, has |-> FALSE]
    ELSE [cur |-> cs + 1, has |-> TRUE]

\* NextSession that takes the last schedule entry for the end of the cycle
NextSessionEarlyWrap(cs) ==
    IF cs + 1 >= Len(schedule) - 1
    THEN [cur |-> 0, has |-> FALSE]
    ELSE [cur |-> cs + 1, has |-> TRUE]

\* NextSession of the engine's session manager
NextSession(cs) == NextSessionOn(schedule, cs)

\* SetCurrentSession that clamps to the schedule's length
SetCurrentSessionClampLen(sch, i) ==
    IF i < 0 THEN 0
    ELSE IF i >= Len(sch) THEN Len(sch)
    ELSE i

\* SetCurrentSession on a given schedule: the cursor it stores
SetCurrentSessionOn(sch, i) ==
    IF i < 0 THEN 0
    ELSE IF i >= Len(sch) THEN Len(sch) - 1
    ELSE i

SetCurrentSession(i) == SetCurrentSessionOn(schedule, i)

\* A session manager whose schedule SetSchedule has accepted: the cursor is 0.
\* op, arg and ret are the last method called on it, its argument and what
\* it returned; k counts the NextSession calls made since the cursor was put
\* to 0 by construction or ResetSessions (-1 after SetCurrentSession).
NewSessionManager(sch) ==
    [schedule |-> sch, currentSession |-> 0, op |-> "new", arg |-> 0,
     seq |-> <<>>, ret |-> FALSE, k |-> 0]

\* A SetSchedule that installs the schedule and leaves the cursor where it is
SetScheduleKeepCursor(sch, cs, seq) ==
    IF \E j \in 1..Len(seq) : seq[j] \notin {StateWorking, StateShortBreak, StateLongBreak}
    THEN [schedule |-> sch, cur |-> cs, err |-> TRUE]
    ELSE IF Len(seq) = 0
    THEN [schedule |-> sch, cur |-> cs, err |-> TRUE]
    ELSE [schedule |-> seq, cur |-> cs, err |-> FALSE]

\* SetSchedule (part_006:180-199): the schedule, the cursor and whether an
\* error is returned
SetScheduleOn(sch, cs, seq) ==
    IF \E j \in 1..Len(seq) : seq[j] \notin {StateWorking, StateShortBreak, StateLongBreak}
    THEN [schedule |-> sch, cur |-> cs, err |-> TRUE]
    ELSE IF Len(seq) = 0
    THEN [schedule |-> sch, cur |-> cs, err |-> TRUE]
    ELSE [schedule |-> [j \in 1..Len(seq) |-> seq[j]], cur |-> 0, err |-> FALSE]

--------------------------------------------------------------------------
\* StatisticsManager

NoStats == [work |-> 0, short |-> 0, long |-> 0]

RecordSessionStats(s, st) ==
    CASE st = StateWorking -> [s EXCEPT !.work = @ + 1]
      [] st = StateShortBreak -> [s EXCEPT !.short = @ + 1]
      [] st = StateLongBreak -> [s EXCEPT !.long = @ + 1]
      [] OTHER -> s

--------------------------------------------------------------------------
\* TimerManager (timer manager in redis_persistence.go:311-539)

\* ser is the serial number of the StartTimer or ResumeTimer call that made it
NoTimer == [armed |-> FALSE, dl |-> 0, ser |-> 0]

\* timer is the slot of the runtime timer tm.timer points to and ticker the
\* serial number of the ticker tm.ticker points to (0: nil); cancel is
\* tm.cancel != nil, that is, the context tm.ctx has not been cancelled;
\* made counts the StartTimer and ResumeTimer calls that armed a timer
NewTimerManager ==
    [timer |-> 0, ticker |-> 0, cancel |-> FALSE, made |-> 0,
     startTime |-> 0, pauseTime |-> -1,
     timeRemaining |-> 0, sessionDuration |-> 0, currentState |-> StateIdle,
     onComplete |-> "nil", cbDur |-> 0]

\* A free runtime timer slot
HasFree(ts) == \E i \in 1..MaxTimers : ~ts[i].armed
FreeSlot(ts) == CHOOSE i \in 1..MaxTimers :
                    ~ts[i].armed /\ \A j \in 1..(i - 1) : ts[j].armed

\* stopTimer: stops and forgets the timer tm.timer refers to, and the ticker
stopTimer(t, ts) ==
    [tm |-> [t EXCEPT !.timer = 0, !.ticker = 0, !.cancel = FALSE],
     timers |-> IF t.timer # 0
                THEN [ts EXCEPT ![t.timer] = NoTimer]
                ELSE ts]

\* getTimeRemainingLocked / GetTimeRemaining read in one piece
TimeRemainingOf(t, n) ==
    IF t.timer = 0 THEN t.timeRemaining
    ELSE IF n - t.startTime >= t.sessionDuration THEN 0
    ELSE t.sessionDuration - (n - t.startTime)

\* StartTimer(duration, state, onTick, onComplete)
StartTimer(t, ts, n, duration, st, cb, cbDur) ==
    LET w == stopTimer(t, ts)
        id == FreeSlot(w.timers)
    IN [tm |-> [w.tm EXCEPT !.sessionDuration = duration,
                            !.currentState = st,
                            !.timeRemaining = duration,
                            !.startTime = n,
                            !.onComplete = cb,
                            !.cbDur = cbDur,
                            !.timer = id,
                            !.ticker = t.made + 1,
                            !.cancel = TRUE,
                            !.made = t.made + 1],
        timers |-> [w.timers EXCEPT ![id] = [armed |-> TRUE, dl |-> n + duration,
                                             ser |-> t.made + 1]]]

\* PauseTimer
PauseTimer(t, ts, n) ==
    IF t.timer = 0
    THEN [tm |-> t, timers |-> ts]
    ELSE stopTimer([t EXCEPT !.timeRemaining = TimeRemainingOf(t, n),
                             !.pauseTime = n], ts)

\* ResumeTimer
ResumeTimer(t, ts, n) ==
    IF t.timeRemaining <= 0
    THEN [tm |-> t, timers |-> ts]
    ELSE LET w == stopTimer(t, ts)
             id == FreeSlot(w.timers)
             pauseDuration == n - t.pauseTime
         IN [tm |-> [w.tm EXCEPT
                       !.startTime = IF t.pauseTime # -1 THEN n - pauseDuration ELSE n,
                       !.sessionDuration = t.timeRemaining,
                       !.timer = id,
                       !.ticker = t.made + 1,
                       !.cancel = TRUE,
                       !.made = t.made + 1],
             timers |-> [w.timers EXCEPT
                           ![id] = [armed |-> TRUE, dl |-> n + t.timeRemaining,
                                    ser |-> t.made + 1]]]

TimerIsRunning(t) == t.timer # 0

--------------------------------------------------------------------------
\* ClockRunner.IsRunning (clock_runner.go:330-338)
IsRunning(s, t) == IsRunningS(s) /\ TimerIsRunning(t)

--------------------------------------------------------------------------
\* Snapshot store (RedisPersistence, PersistenceManager)

\* time.Format(time.RFC3339) keeps whole seconds
FormatRFC3339(t) == (t \div TicksPerSecond) * TicksPerSecond

\* time.Parse(time.RFC3339) of a stored string
ParseRFC3339(t) == t

\* Duration to integer milliseconds
MsPerTick == 1000 \div TicksPerSecond
Millis(d) == d * MsPerTick

\* SaveSystemStateToRedis builds this record from what its reads returned
SystemStateOf(s, timeRemaining, isRunning, isPaused, cs, n) ==
    LET endTime == IF s = StateIdle THEN n + OneHour
                   ELSE IF timeRemaining > 0 THEN n + timeRemaining
                   ELSE n
        remainingMs == IF s = StateIdle THEN 0
                       ELSE IF timeRemaining > 0 THEN Millis(timeRemaining)
                       ELSE 0
    IN [currentSession |-> cs,
        endTime |-> FormatRFC3339(endTime),
        state |-> s,
        timeRemaining |-> remainingMs,
        isRunning |-> isRunning,
        isPaused |-> isPaused]

\* SaveSystemStateToRedis with all its reads made at one moment
SystemState(s, cs, t, n) ==
    SystemStateOf(s, TimeRemainingOf(t, n), IsRunning(s, t), IsPausedS(s), cs, n)

\* Outcomes of a call to the store: it succeeds, or (flaky) it may fail
Outcomes == IF redis = "flaky" THEN BOOLEAN ELSE {TRUE}

\* saveStateToRedis: nothing without Redis; else the write reaches the store
\* (ok) or fails and is logged
SavedStore(ok, s, cs, t, n) ==
    IF redis # "none" /\ ok THEN <<SystemState(s, cs, t, n)>> ELSE store

\* A save that hands a failed write to the operation as its error
SaveErrorReturned(ok) == ~ok

\* What an operation learns from saveStateToRedis: the function has no
\* result, a failed write is only logged (clock_runner.go:457-461)
SaveError(ok) == FALSE

--------------------------------------------------------------------------
\* Threads

\* The caller's thread: its position, the operation, the error it returns, the
\* phase and duration startNewSession read, and what the caller of a resuming
\* Start() or of a Skip() saw when it called: the remaining time r, the
\* cursor cur, the phase ph and the number of history records recs; tr is
\* what synchronizeStateTimer read from the timer's IsRunning()
CtlIdle == [pc |-> "idle", op |-> "none", err |-> FALSE, nst |-> StateIdle, ndur |-> 0,
            r |-> 0, cur |-> 0, ph |-> StateIdle, recs |-> 0, tr |-> FALSE]
\* A goroutine of handleSessionComplete; ser is the serial number of the
\* timer that fired
HIdle == [pc |-> "idle", st |-> StateIdle, kind |-> "nil", dur |-> 0,
          nst |-> StateIdle, ndur |-> 0, ser |-> 0]
\* A tickerLoop goroutine: the ticker it captured and the remaining time it read
TlIdle == [pc |-> "idle", id |-> 0, rem |-> 0]
\* The periodic persistence goroutine, what its reads have returned and the
\* number n of periodic saves it has begun
PsIdle == [pc |-> "idle", st |-> StateIdle, rem |-> 0, run |-> FALSE,
           paused |-> FALSE, cs |-> 0, n |-> 0]
RdIdle == [pc |-> "idle", elapsed |-> 0, dur |-> 0, res |-> 0, bound |-> 0]
NoBoot == [res |-> "none", snap |-> <<>>, at |-> 0]

Handlers == 1..MaxHandlers
HandlersBusy == {h \in Handlers : hs[h].pc # "idle"}
CtlQuiet == ctl.pc \in {"idle", "ret"}
CrMuHeld == ~CtlQuiet

\* A handleSessionComplete that keeps tm.mu locked while tm.onComplete runs
TmMuPcsInCallback ==
    {"record", "next", "next_wrap", "wrap", "sns_set", "sns_timer", "sns_save"}

\* The positions of a handleSessionComplete goroutine at which it holds tm.mu
\* from one step to the next: none, it unlocks before it calls tm.onComplete
\* and locks again after it (redis_persistence.go:528-530); every other
\* section under tm.mu is one step
TmMuPcs == {}

TmMuHeld == \E h \in Handlers : hs[h].pc \in TmMuPcs

\* sm.mu is held between the two writes of a NextSession that wraps
SmMuHeld == ctl.pc = "sk_wrap" \/ \E h \in Handlers : hs[h].pc = "next_wrap"

Ret(op, err) == [CtlIdle EXCEPT !.pc = "ret", !.op = op, !.err = err]

\* No call of ParseScheduling
NoParse == [pc |-> "none", str |-> <<>>, schedule |-> <<>>, err |-> FALSE]

\* Memory of a process that has just been constructed without recovery
FreshMemory ==
    /\ state = StateIdle
    /\ currentSession = 0
    /\ history = <<>>
    /\ stats = NoStats
    /\ tm = NewTimerManager
    /\ timers = [i \in 1..MaxTimers |-> NoTimer]
    /\ hs = [h \in Handlers |-> HIdle]
    /\ ctl = CtlIdle
    /\ rd = RdIdle
    /\ saveTicker = FALSE
    /\ notified = "none"
    /\ boot = NoBoot
    /\ tl = TlIdle
    /\ completions = {}
    /\ ps = PsIdle

\* NewClockRunner (clock_runner.go:59-68): no Redis
Init ==
    /\ now = 0
    /\ up = TRUE
    /\ crashes = 0
    /\ calls = 0
    /\ FreshMemory
    /\ sm = NewSessionManager(schedule)
    /\ parsed = NoParse
    /\ redis = "none"
    /\ store = <<>>

--------------------------------------------------------------------------
\* The clock

\* The clock advances up to limit while no thread has a step to take and no
\* armed timer is due
TickUpTo(limit) ==
    /\ now < limit
    /\ CtlQuiet
    /\ HandlersBusy = {}
    /\ rd.pc \in {"idle", "done"}
    /\ tl.pc \in {"idle", "select"}
    /\ ps.pc = "idle"
    /\ \A i \in 1..MaxTimers : timers[i].armed => timers[i].dl > now
    /\ now' = now + 1
    /\ UNCHANGED <<up, crashes, calls, state, currentSession, history, stats, tm, timers,
                   hs, ctl, rd, saveTicker, notified, redis, store, boot, sm, tl, completions, ps, parsed>>

Tick == TickUpTo(Horizon)

\* The clock of a run that follows one whole cycle of the schedule
CycleTick == TickUpTo(MaxTime)

--------------------------------------------------------------------------
\* ClockRunner.Start (clock_runner.go:132-163)

Start ==
    /\ up /\ ctl.pc = "idle"
    /\ calls < MaxCalls
    /\ calls' = calls + 1
    /\ ctl' = IF ~CanStart(state) THEN Ret("Start", TRUE)
              ELSE IF IsIdleS(state) THEN [CtlIdle EXCEPT !.pc = "st_reset", !.op = "Start"]
              ELSE [CtlIdle EXCEPT !.pc = "rs_state", !.op = "Start",
                                   !.r = TimeRemainingOf(tm, now),
                                   !.cur = currentSession]
    /\ UNCHANGED <<now, up, crashes, state, currentSession, history, stats, tm,
                   timers, hs, rd, saveTicker, notified, redis, store, boot, sm, tl, completions, ps, parsed>>

Start_ResetSessions ==
    /\ ctl.pc = "st_reset" /\ ~SmMuHeld
    /\ currentSession' = 0
    /\ ctl' = [ctl EXCEPT !.pc = "sns_set"]
    /\ UNCHANGED <<now, up, crashes, calls, state, history, stats, tm, timers, hs, rd,
                   saveTicker, notified, redis, store, boot, sm, tl, completions, ps, parsed>>

\* startNewSession (clock_runner.go:259-290) on the caller's thread
Ctl_SetSessionState ==
    /\ ctl.pc = "sns_set"
    /\ state' = GetCurrentSessionState(currentSession)
    /\ ctl' = [ctl EXCEPT !.pc = "sns_timer",
                          !.nst = GetCurrentSessionState(currentSession),
                          !.ndur = GetCurrentSessionDuration(currentSession)]
    /\ UNCHANGED <<now, up, crashes, calls, currentSession, history, stats, tm, timers,
                   hs, rd, saveTicker, notified, redis, store, boot, sm, tl, completions, ps, parsed>>

Ctl_StartTimer ==
    /\ ctl.pc = "sns_timer" /\ ~TmMuHeld
    /\ HasFree(stopTimer(tm, timers).timers)
    /\ LET w == StartTimer(tm, timers, now, ctl.ndur, ctl.nst, "runner", ctl.ndur)
       IN tm' = w.tm /\ timers' = w.timers
    /\ ctl' = [ctl EXCEPT !.pc = "sns_save"]
    /\ UNCHANGED <<now, up, crashes, calls, state, currentSession, history, stats, hs, rd,
                   saveTicker, notified, redis, store, boot, sm, tl, completions, ps, parsed>>

Ctl_NotifyAndSave ==
    /\ ctl.pc = "sns_save"
    /\ notified' = GetCurrentSessionState(currentSession)
    /\ \E ok \in Outcomes :
          /\ store' = SavedStore(ok, state, currentSession, tm, now)
          /\ ctl' = IF SaveError(ok) THEN Ret(ctl.op, TRUE)
                    ELSE IF ctl.op = "Start" THEN [ctl EXCEPT !.pc = "st_run"]
                    ELSE Ret(ctl.op, FALSE)
    /\ UNCHANGED <<now, up, crashes, calls, state, currentSession, history, stats, tm,
                   timers, hs, rd, saveTicker, redis, boot, sm, tl, completions, ps, parsed>>

\* runSaveStateToRedis and the closing saveStateToRedis of Start
Start_RunSave ==
    /\ ctl.pc = "st_run"
    /\ saveTicker' = TRUE
    /\ \E ok \in Outcomes :
          /\ store' = SavedStore(ok, state, currentSession, tm, now)
          /\ ctl' = Ret("Start", SaveError(ok))
    /\ UNCHANGED <<now, up, crashes, calls, state, currentSession, history, stats, tm,
                   timers, hs, rd, notified, redis, boot, sm, tl, completions, ps, parsed>>

\* Start from Paused: SetState(GetCurrentSessionState())
Start_ResumeState ==
    /\ ctl.pc = "rs_state"
    /\ state' = GetCurrentSessionState(currentSession)
    /\ ctl' = [ctl EXCEPT !.pc = "rs_timer"]
    /\ UNCHANGED <<now, up, crashes, calls, currentSession, history, stats, tm, timers,
                   hs, rd, saveTicker, notified, redis, store, boot, sm, tl, completions, ps, parsed>>

Start_ResumeTimer ==
    /\ ctl.pc = "rs_timer" /\ ~TmMuHeld
    /\ tm.timeRemaining > 0 => HasFree(stopTimer(tm, timers).timers)
    /\ LET w == ResumeTimer(tm, timers, now)
       IN tm' = w.tm /\ timers' = w.timers
    /\ ctl' = [ctl EXCEPT !.pc = "st_run"]
    /\ UNCHANGED <<now, up, crashes, calls, state, currentSession, history, stats, hs, rd,
                   saveTicker, notified, redis, store, boot, sm, tl, completions, ps, parsed>>

--------------------------------------------------------------------------
\* ClockRunner.Pause (clock_runner.go:166-185)

Pause ==
    /\ up /\ ctl.pc = "idle"
    /\ calls < MaxCalls
    /\ calls' = calls + 1
    /\ IF ~CanPause(state)
       THEN /\ ctl' = Ret("Pause", TRUE)
            /\ state' = state
       ELSE /\ ctl' = [CtlIdle EXCEPT !.pc = "pa_timer", !.op = "Pause"]
            /\ state' = StatePaused
    /\ UNCHANGED <<now, up, crashes, currentSession, history, stats, tm, timers,
                   hs, rd, saveTicker, notified, redis, store, boot, sm, tl, completions, ps, parsed>>

Pause_Timer ==
    /\ ctl.pc = "pa_timer" /\ ~TmMuHeld
    /\ LET w == PauseTimer(tm, timers, now)
       IN tm' = w.tm /\ timers' = w.timers
    /\ ctl' = [ctl EXCEPT !.pc = "pa_save"]
    /\ UNCHANGED <<now, up, crashes, calls, state, currentSession, history, stats, hs, rd,
                   saveTicker, notified, redis, store, boot, sm, tl, completions, ps, parsed>>

Pause_Save ==
    /\ ctl.pc = "pa_save"
    /\ \E ok \in Outcomes :
          /\ store' = SavedStore(ok, state, currentSession, tm, now)
          /\ notified' = IF SaveError(ok) THEN notified ELSE StatePaused
          /\ ctl' = Ret("Pause", SaveError(ok))
    /\ UNCHANGED <<now, up, crashes, calls, state, currentSession, history, stats, tm,
                   timers, hs, rd, saveTicker, redis, boot, sm, tl, completions, ps, parsed>>

--------------------------------------------------------------------------
\* ClockRunner.Stop (clock_runner.go:188-213)

Stop ==
    /\ up /\ ctl.pc = "idle"
    /\ calls < MaxCalls
    /\ calls' = calls + 1
    /\ IF ~CanStop(state)
       THEN /\ ctl' = Ret("Stop", TRUE)
            /\ state' = state
       ELSE /\ ctl' = [CtlIdle EXCEPT !.pc = "sp_reset", !.op = "Stop"]
            /\ state' = StateIdle
    /\ UNCHANGED <<now, up, crashes, currentSession, history, stats, tm, timers,
                   hs, rd, saveTicker, notified, redis, store, boot, sm, tl, completions, ps, parsed>>

Stop_ResetSessions ==
    /\ ctl.pc = "sp_reset" /\ ~SmMuHeld
    /\ currentSession' = 0
    /\ ctl' = [ctl EXCEPT !.pc = "sp_timer"]
    /\ UNCHANGED <<now, up, crashes, calls, state, history, stats, tm, timers, hs, rd,
                   saveTicker, notified, redis, store, boot, sm, tl, completions, ps, parsed>>

Stop_Timer ==
    /\ ctl.pc = "sp_timer" /\ ~TmMuHeld
    /\ LET w == stopTimer(tm, timers)
       IN tm' = w.tm /\ timers' = w.timers
    /\ ctl' = [ctl EXCEPT !.pc = "sp_save"]
    /\ UNCHANGED <<now, up, crashes, calls, state, currentSession, history, stats, hs, rd,
                   saveTicker, notified, redis, store, boot, sm, tl, completions, ps, parsed>>

Stop_Save ==
    /\ ctl.pc = "sp_save"
    /\ saveTicker' = FALSE
    /\ \E ok \in Outcomes :
          /\ store' = SavedStore(ok, state, currentSession, tm, now)
          /\ notified' = IF SaveError(ok) THEN notified ELSE StateIdle
          /\ ctl' = Ret("Stop", SaveError(ok))
    /\ UNCHANGED <<now, up, crashes, calls, state, currentSession, history, stats, tm,
                   timers, hs, rd, redis, boot, sm, tl, completions, ps, parsed>>

--------------------------------------------------------------------------
\* ClockRunner.Skip (clock_runner.go:216-256)

Skip ==
    /\ up /\ ctl.pc = "idle"
    /\ calls < MaxCalls
    /\ calls' = calls + 1
    /\ IF ~IsRunningS(state)
       THEN /\ ctl' = [CtlIdle EXCEPT !.pc = "sk_paused", !.op = "Skip",
                                      !.ph = state]
            /\ UNCHANGED <<tm, timers>>
       ELSE /\ ctl' = [CtlIdle EXCEPT !.pc = "sk_record", !.op = "Skip",
                                      !.cur = currentSession, !.ph = state,
                                      !.recs = Len(history)]
            /\ ~TmMuHeld
            /\ LET w == stopTimer(tm, timers)
               IN tm' = w.tm /\ timers' = w.timers
    /\ UNCHANGED <<now, up, crashes, state, currentSession, history, stats, hs, rd,
                   saveTicker, notified, redis, store, boot, sm, tl, completions, ps, parsed>>

\* CanSkip's second load of the phase (state.go:68-70), after the first,
\* kept in ctl.ph, found no running phase
Skip_IsPaused ==
    /\ ctl.pc = "sk_paused"
    /\ IF ~CanSkip(ctl.ph, state)
       THEN /\ ctl' = Ret("Skip", TRUE)
            /\ UNCHANGED <<tm, timers>>
       ELSE /\ ctl' = [ctl EXCEPT !.pc = "sk_record", !.cur = currentSession,
                                  !.ph = state, !.recs = Len(history)]
            /\ ~TmMuHeld
            /\ LET w == stopTimer(tm, timers)
               IN tm' = w.tm /\ timers' = w.timers
    /\ UNCHANGED <<now, up, crashes, calls, state, currentSession, history, stats, hs,
                   rd, saveTicker, notified, redis, store, boot, sm, tl, completions, ps, parsed>>

Skip_Record ==
    /\ ctl.pc = "sk_record"
    /\ history' = Append(history, state)
    /\ stats' = RecordSessionStats(stats, state)
    /\ ctl' = [ctl EXCEPT !.pc = "sk_next"]
    /\ UNCHANGED <<now, up, crashes, calls, state, currentSession, tm, timers, hs, rd,
                   saveTicker, notified, redis, store, boot, sm, tl, completions, ps, parsed>>

\* NextSession, first write: sm.currentSession++ (part_006:97)
Skip_NextSession ==
    /\ ctl.pc = "sk_next" /\ ~SmMuHeld
    /\ currentSession' = currentSession + 1
    /\ ctl' = [ctl EXCEPT !.pc = IF NextSession(currentSession).has
                                 THEN "sns_set" ELSE "sk_wrap"]
    /\ UNCHANGED <<now, up, crashes, calls, state, history, stats, tm, timers, hs, rd,
                   saveTicker, notified, redis, store, boot, sm, tl, completions, ps, parsed>>

\* NextSession, second write at the end of the schedule (part_006:98-101)
Skip_NextSessionWrap ==
    /\ ctl.pc = "sk_wrap"
    /\ currentSession' = NextSession(currentSession - 1).cur
    /\ ctl' = [ctl EXCEPT !.pc = "sk_idle"]
    /\ UNCHANGED <<now, up, crashes, calls, state, history, stats, tm, timers, hs, rd,
                   saveTicker, notified, redis, store, boot, sm, tl, completions, ps, parsed>>

Skip_Idle ==
    /\ ctl.pc = "sk_idle"
    /\ state' = StateIdle
    /\ \E ok \in Outcomes :
          /\ store' = SavedStore(ok, StateIdle, currentSession, tm, now)
          /\ notified' = IF SaveError(ok) THEN notified ELSE StateIdle
          /\ ctl' = Ret("Skip", SaveError(ok))
    /\ UNCHANGED <<now, up, crashes, calls, currentSession, history, stats, tm, timers,
                   hs, rd, saveTicker, redis, boot, sm, tl, completions, ps, parsed>>

\* The caller takes the result; the deferred cr.mu.Unlock has run
Return ==
    /\ ctl.pc = "ret"
    /\ ctl' = CtlIdle
    /\ UNCHANGED <<now, up, crashes, calls, state, currentSession, history, stats, tm,
                   timers, hs, rd, saveTicker, notified, redis, store, boot, sm, tl, completions, ps, parsed>>

--------------------------------------------------------------------------
\* The deadline: time.AfterFunc runs handleSessionComplete on a new goroutine
\* (redis_persistence.go:366-368, 424-426)

FreeHandler == CHOOSE h \in Handlers :
                   hs[h].pc = "idle" /\ \A g \in 1..(h - 1) : hs[g].pc # "idle"

Fire(i) ==
    /\ up
    /\ timers[i].armed /\ timers[i].dl <= now
    /\ \E h \in Handlers : hs[h].pc = "idle"
    /\ timers' = [timers EXCEPT ![i] = NoTimer]
    /\ hs' = [hs EXCEPT ![FreeHandler] = [HIdle EXCEPT !.pc = "enter",
                                                       !.ser = timers[i].ser]]
    /\ UNCHANGED <<now, up, crashes, calls, state, currentSession, history, stats, tm,
                   ctl, rd, saveTicker, notified, redis, store, boot, sm, tl, completions, ps, parsed>>

\* handleSessionComplete, first section under tm.mu (redis_persistence.go:517-529)
H_Enter(h) ==
    /\ hs[h].pc = "enter" /\ ~TmMuHeld
    /\ IF tm.onComplete # "nil"
       THEN /\ tm' = [tm EXCEPT !.ticker = 0]
            /\ hs' = [hs EXCEPT ![h] = [HIdle EXCEPT !.pc = "record",
                                                     !.ser = hs[h].ser,
                                                     !.st = tm.currentState,
                                                     !.kind = tm.onComplete,
                                                     !.dur = tm.cbDur]]
            /\ completions' = completions \cup {hs[h].ser}
       ELSE /\ tm' = [tm EXCEPT !.ticker = 0, !.timer = 0, !.timeRemaining = 0]
            /\ hs' = [hs EXCEPT ![h] = HIdle]
            /\ UNCHANGED completions
    /\ UNCHANGED <<now, up, crashes, calls, state, currentSession, history, stats, timers,
                   ctl, rd, saveTicker, notified, redis, store, boot, sm, tl, ps, parsed>>

\* onComplete: RecordSession (callbacks.go:11, resume_manager.go:351-352)
H_Record(h) ==
    /\ hs[h].pc = "record"
    /\ history' = Append(history, hs[h].st)
    /\ stats' = RecordSessionStats(stats, hs[h].st)
    /\ hs' = [hs EXCEPT ![h].pc = "next"]
    /\ UNCHANGED <<now, up, crashes, calls, state, currentSession, tm, timers, ctl, rd,
                   saveTicker, notified, redis, store, boot, sm, tl, completions, ps, parsed>>

\* onComplete: NextSession (callbacks.go:22, resume_manager.go:359)
\* The first write is sm.currentSession++ (part_006:97)
H_NextSession(h) ==
    /\ hs[h].pc = "next" /\ ~SmMuHeld
    /\ currentSession' = currentSession + 1
    /\ hs' = [hs EXCEPT ![h].pc = IF NextSession(currentSession).has
                                  THEN "sns_set" ELSE "next_wrap"]
    /\ UNCHANGED <<now, up, crashes, calls, state, history, stats, tm, timers, ctl, rd,
                   saveTicker, notified, redis, store, boot, sm, tl, completions, ps, parsed>>

\* NextSession, second write at the end of the schedule (part_006:98-101)
H_NextSessionWrap(h) ==
    /\ hs[h].pc = "next_wrap"
    /\ currentSession' = NextSession(currentSession - 1).cur
    /\ hs' = [hs EXCEPT ![h].pc = "wrap"]
    /\ UNCHANGED <<now, up, crashes, calls, state, history, stats, tm, timers, ctl, rd,
                   saveTicker, notified, redis, store, boot, sm, tl, completions, ps, parsed>>

\* onComplete, schedule finished (callbacks.go:24-34, resume_manager.go:360-367)
H_Idle(h) ==
    /\ hs[h].pc = "wrap"
    /\ state' = StateIdle
    /\ notified' = StateIdle
    /\ IF hs[h].kind = "runner"
       THEN \E ok \in Outcomes :
               store' = SavedStore(ok, StateIdle, currentSession, tm, now)
       ELSE store' = store
    /\ hs' = [hs EXCEPT ![h].pc = "reset"]
    /\ UNCHANGED <<now, up, crashes, calls, currentSession, history, stats, tm, timers,
                   ctl, rd, saveTicker, redis, boot, sm, tl, completions, ps, parsed>>

\* startNewSession on the callback's goroutine (clock_runner.go:259-290)
H_SetSessionState(h) ==
    /\ hs[h].pc = "sns_set"
    /\ state' = GetCurrentSessionState(currentSession)
    /\ hs' = [hs EXCEPT ![h].pc = "sns_timer",
                        ![h].nst = GetCurrentSessionState(currentSession),
                        ![h].ndur = GetCurrentSessionDuration(currentSession)]
    /\ UNCHANGED <<now, up, crashes, calls, currentSession, history, stats, tm, timers,
                   ctl, rd, saveTicker, notified, redis, store, boot, sm, tl, completions, ps, parsed>>

H_StartTimer(h) ==
    /\ hs[h].pc = "sns_timer" /\ ~TmMuHeld
    /\ HasFree(stopTimer(tm, timers).timers)
    /\ LET w == StartTimer(tm, timers, now, hs[h].ndur, hs[h].nst, "runner", hs[h].ndur)
       IN tm' = w.tm /\ timers' = w.timers
    /\ hs' = [hs EXCEPT ![h].pc = "sns_save"]
    /\ UNCHANGED <<now, up, crashes, calls, state, currentSession, history, stats, ctl, rd,
                   saveTicker, notified, redis, store, boot, sm, tl, completions, ps, parsed>>

\* onStateChange and saveStateToRedis of startNewSession, and the second
\* saveStateToRedis of callbacks.go:40
H_NotifyAndSave(h) ==
    /\ hs[h].pc = "sns_save"
    /\ notified' = GetCurrentSessionState(currentSession)
    /\ \E ok \in Outcomes :
          store' = SavedStore(ok, state, currentSession, tm, now)
    /\ hs' = [hs EXCEPT ![h].pc = "reset"]
    /\ UNCHANGED <<now, up, crashes, calls, state, currentSession, history, stats, tm,
                   timers, ctl, rd, saveTicker, redis, boot, sm, tl, completions, ps, parsed>>

\* handleSessionComplete, last section under tm.mu (redis_persistence.go:531-538)
H_Reset(h) ==
    /\ hs[h].pc = "reset" /\ ~TmMuHeld
    /\ tm' = [tm EXCEPT !.timer = 0, !.timeRemaining = 0]
    /\ hs' = [hs EXCEPT ![h] = HIdle]
    /\ UNCHANGED <<now, up, crashes, calls, state, currentSession, history, stats, timers,
                   ctl, rd, saveTicker, notified, redis, store, boot, sm, tl, completions, ps, parsed>>

--------------------------------------------------------------------------
\* Recovery at construction (NewClockRunnerWithRedis, ResumeManager)

\* validateAndRepairState (redis_persistence.go:239-287)
validateAndRepairState(s0) ==
    LET s1 == IF s0.currentSession < 0 \/ s0.currentSession > 100
              THEN [s0 EXCEPT !.currentSession = 0] ELSE s0
        s2 == IF s1.state \notin KnownStates
              THEN [s1 EXCEPT !.state = StateIdle] ELSE s1
        s3 == IF s2.state = StateIdle
                 /\ (s2.isRunning \/ s2.isPaused \/ s2.timeRemaining > 0)
              THEN [s2 EXCEPT !.isRunning = FALSE, !.isPaused = FALSE,
                              !.timeRemaining = 0]
              ELSE s2
        s4 == IF s3.isRunning /\ s3.isPaused
              THEN [s3 EXCEPT !.isRunning = FALSE] ELSE s3
        s5 == IF s4.timeRemaining < 0
              THEN [s4 EXCEPT !.timeRemaining = 0] ELSE s4
    IN s5

\* LoadSystemState (redis_persistence.go:163-236): defaults for an empty hash
LoadSystemState(st, n) ==
    IF st = <<>>
    THEN [currentSession |-> 0, endTime |-> n + OneDay, state |-> StateIdle,
          timeRemaining |-> 0, isRunning |-> FALSE, isPaused |-> FALSE]
    ELSE validateAndRepairState([st[1] EXCEPT !.endTime = ParseRFC3339(@)])

\* shouldResetDueToTimeout that tolerates a second of staleness
shouldResetAfterGrace(s, n) == s.endTime + TicksPerSecond < n

\* shouldResetDueToTimeout (resume_manager.go:69-77)
shouldResetDueToTimeout(s, n) == s.endTime < n

\* validateSystemState (resume_manager.go:143-173): TRUE when no error
validateSystemState(s) ==
    /\ ~(s.currentSession < 0 \/ s.currentSession >= GetTotalSessions)
    /\ s.state \in KnownStates
    /\ ~(s.state = StateIdle /\ (s.isRunning \/ s.isPaused \/ s.timeRemaining > 0))
    /\ ~(s.state = StatePaused /\ ~s.isPaused)
    /\ ~(s.isRunning /\ s.isPaused)

\* The engine as the constructor leaves it before ResumeFromRedis
NewEngine(st) ==
    [state |-> StateIdle, currentSession |-> 0, history |-> <<>>, stats |-> NoStats,
     tm |-> NewTimerManager, timers |-> [i \in 1..MaxTimers |-> NoTimer],
     saveTicker |-> FALSE, notified |-> "none", store |-> st]

\* saveStateToRedis / SaveSystemStateToRedis on an engine record
SaveEngine(e, ok, n) ==
    IF ok THEN [e EXCEPT !.store = <<SystemState(e.state, e.currentSession, e.tm, n)>>]
    ELSE e

\* resetToIdle (resume_manager.go:80-95)
resetToIdle(e, ok, n) ==
    LET w == stopTimer(e.tm, e.timers)
    IN SaveEngine([e EXCEPT !.state = StateIdle, !.currentSession = 0,
                            !.tm = w.tm, !.timers = w.timers], ok, n)

\* restoreIdleState (resume_manager.go:176-181)
restoreIdleState(e) ==
    LET w == stopTimer(e.tm, e.timers)
    IN [e EXCEPT !.state = StateIdle, !.currentSession = 0,
                 !.tm = w.tm, !.timers = w.timers]

\* startNewSession run in one piece by the constructor
startNewSessionE(e, ok, n) ==
    LET st == GetCurrentSessionState(e.currentSession)
        dur == GetCurrentSessionDuration(e.currentSession)
        w == StartTimer(e.tm, e.timers, n, dur, st, "runner", dur)
    IN SaveEngine([e EXCEPT !.state = st, !.tm = w.tm, !.timers = w.timers,
                            !.notified = st], ok, n)

\* handleCompletedSession (resume_manager.go:315-333)
handleCompletedSession(e, completedState, ok, n) ==
    LET r == [e EXCEPT !.history = Append(@, completedState),
                       !.stats = RecordSessionStats(@, completedState)]
        nx == NextSession(e.currentSession)
    IN IF ~nx.has
       THEN [r EXCEPT !.currentSession = nx.cur, !.state = StateIdle,
                      !.notified = StateIdle]
       ELSE startNewSessionE([r EXCEPT !.currentSession = nx.cur], ok, n)

\* resumeRunningSession that restarts the phase with its configured duration
resumeRunningFullDuration(e, s, ok, n) ==
    LET e1 == [e EXCEPT !.currentSession = SetCurrentSession(s.currentSession),
                        !.state = s.state]
        w == StartTimer(e1.tm, e1.timers, n, DurationOf(s.state), s.state, "resume", 0)
    IN SaveEngine([e1 EXCEPT !.tm = w.tm, !.timers = w.timers,
                             !.saveTicker = TRUE], ok, n)

\* resumeRunningSession (resume_manager.go:184-220)
resumeRunningSession(e, s, ok, n) ==
    LET e1 == [e EXCEPT !.currentSession = SetCurrentSession(s.currentSession),
                        !.state = s.state]
        remainingTime == s.endTime - n
    IN IF remainingTime <= 0
       THEN handleCompletedSession(e1, s.state, ok, n)
       ELSE LET w == StartTimer(e1.tm, e1.timers, n, remainingTime, s.state, "resume", 0)
            IN SaveEngine([e1 EXCEPT !.tm = w.tm, !.timers = w.timers,
                                     !.saveTicker = TRUE], ok, n)

\* resumePausedSession that leaves the restored timer running
resumePausedStillRunning(e, s, n) ==
    LET e1 == [e EXCEPT !.currentSession = SetCurrentSession(s.currentSession),
                        !.state = StatePaused, !.saveTicker = TRUE]
        w == StartTimer(e1.tm, e1.timers, n, s.endTime - n, s.state, "resume", 0)
    IN IF s.endTime - n > 0
       THEN [e1 EXCEPT !.tm = w.tm, !.timers = w.timers]
       ELSE e1

\* resumePausedSession (resume_manager.go:223-255)
resumePausedSession(e, s, n) ==
    LET e1 == [e EXCEPT !.currentSession = SetCurrentSession(s.currentSession),
                        !.state = StatePaused, !.saveTicker = TRUE]
        remainingTime == s.endTime - n
    IN IF remainingTime > 0
       THEN LET w == StartTimer(e1.tm, e1.timers, n, remainingTime, s.state, "resume", 0)
                v == PauseTimer(w.tm, w.timers, n)
            IN [e1 EXCEPT !.tm = v.tm, !.timers = v.timers]
       ELSE e1

\* resumeCompletedSession (resume_manager.go:301-312)
resumeCompletedSession(e, s, ok, n) ==
    handleCompletedSession(
        [e EXCEPT !.currentSession = SetCurrentSession(s.currentSession)],
        s.state, ok, n)

\* resumeBasedOnState that takes a snapshot with neither flag set as completed,
\* whatever remaining time it stores
resumeBasedOnStateFlagsOnly(e, s, ok, n) ==
    IF ~validateSystemState(s) THEN resetToIdle(e, ok, n)
    ELSE IF s.state = StateIdle THEN restoreIdleState(e)
    ELSE IF s.state \in ActiveStates
    THEN IF s.isPaused THEN resumePausedSession(e, s, n)
         ELSE IF s.isRunning THEN resumeRunningSession(e, s, ok, n)
         ELSE resumeCompletedSession(e, s, ok, n)
    ELSE resetToIdle(e, ok, n)

\* resumeBasedOnState (resume_manager.go:98-140); synchronizeStateTimer finds
\* the fresh engine Idle with no timer and changes nothing
resumeBasedOnState(e, s, ok, n) ==
    IF ~validateSystemState(s) THEN resetToIdle(e, ok, n)
    ELSE IF s.state = StateIdle THEN restoreIdleState(e)
    ELSE IF s.state \in ActiveStates
    THEN IF s.isPaused THEN resumePausedSession(e, s, n)
         ELSE IF s.isRunning THEN resumeRunningSession(e, s, ok, n)
         ELSE IF s.timeRemaining > 0 THEN resumeRunningSession(e, s, ok, n)
         ELSE resumeCompletedSession(e, s, ok, n)
    ELSE resetToIdle(e, ok, n)

\* ResumeFromRedis (resume_manager.go:22-52)
ResumeFromRedis(st, loadOk, ok, n) ==
    IF ~loadOk THEN resetToIdle(NewEngine(st), ok, n)
    ELSE LET s == LoadSystemState(st, n)
         IN IF shouldResetDueToTimeout(s, n)
            THEN resetToIdle(NewEngine(st), ok, n)
            ELSE resumeBasedOnState(NewEngine(st), s, ok, n)

\* The process dies: memory and runtime timers are gone, the store stays
Crash ==
    /\ up /\ redis # "none"
    /\ crashes < MaxCrashes
    /\ up' = FALSE
    /\ crashes' = crashes + 1
    /\ state' = StateIdle
    /\ currentSession' = 0
    /\ history' = <<>>
    /\ stats' = NoStats
    /\ tm' = NewTimerManager
    /\ timers' = [i \in 1..MaxTimers |-> NoTimer]
    /\ hs' = [h \in Handlers |-> HIdle]
    /\ ctl' = CtlIdle
    /\ rd' = RdIdle
    /\ saveTicker' = FALSE
    /\ notified' = "none"
    /\ boot' = NoBoot
    /\ tl' = TlIdle
    /\ completions' = {}
    /\ ps' = PsIdle
    /\ UNCHANGED <<now, calls, redis, store, sm, parsed>>

\* NewClockRunnerWithRedis (clock_runner.go:71-102)
Boot ==
    /\ ~up
    /\ \E loadOk \in Outcomes, ok \in Outcomes :
          LET e == ResumeFromRedis(store, loadOk, ok, now)
          IN /\ state' = e.state
             /\ currentSession' = e.currentSession
             /\ history' = e.history
             /\ stats' = e.stats
             /\ tm' = e.tm
             /\ timers' = e.timers
             /\ saveTicker' = e.saveTicker
             /\ notified' = e.notified
             /\ store' = e.store
             /\ boot' = [res |-> IF loadOk THEN "loaded" ELSE "failed",
                         snap |-> store, at |-> now]
    /\ up' = TRUE
    /\ UNCHANGED <<now, crashes, calls, hs, ctl, rd, redis, sm, tl, completions, ps, parsed>>

--------------------------------------------------------------------------
\* The engine while the process runs

ControlStep ==
    \/ Start \/ Start_ResetSessions \/ Start_RunSave
    \/ Start_ResumeState \/ Start_ResumeTimer
    \/ Ctl_SetSessionState \/ Ctl_StartTimer \/ Ctl_NotifyAndSave
    \/ Pause \/ Pause_Timer \/ Pause_Save
    \/ Stop \/ Stop_ResetSessions \/ Stop_Timer \/ Stop_Save
    \/ Skip \/ Skip_IsPaused \/ Skip_Record \/ Skip_NextSession \/ Skip_NextSessionWrap \/ Skip_Idle
    \/ Return

\* The steps of the goroutine h of handleSessionComplete
HandlerStep(h) ==
    \/ H_Enter(h) \/ H_Record(h) \/ H_NextSession(h) \/ H_NextSessionWrap(h)
    \/ H_Idle(h)
    \/ H_SetSessionState(h) \/ H_StartTimer(h) \/ H_NotifyAndSave(h)
    \/ H_Reset(h)

TimerStep ==
    \/ \E i \in 1..MaxTimers : Fire(i)
    \/ \E h \in Handlers : HandlerStep(h)

\* An engine without Redis (NewClockRunner)
Next == Tick \/ ControlStep \/ TimerStep

\* The same engine with goroutines that run when they can: the caller's
\* thread and each goroutine of handleSessionComplete take their next step
\* if it stays possible
SpecLive ==
    /\ Init /\ [][Next]_vars
    /\ WF_vars(ControlStep)
    /\ \A h \in Handlers : WF_vars(HandlerStep(h))

Spec == Init /\ [][Next]_vars

\* An engine whose store is reachable but may fail any write
InitFlaky ==
    /\ now = 0
    /\ up = TRUE
    /\ crashes = 0
    /\ calls = 0
    /\ FreshMemory
    /\ sm = NewSessionManager(schedule)
    /\ parsed = NoParse
    /\ redis = "flaky"
    /\ store = <<>>

SpecFlaky == InitFlaky /\ [][Next]_vars

\* An engine with Redis, restarted at most MaxCrashes times
InitPersist ==
    /\ now = 0
    /\ up = TRUE
    /\ crashes = 0
    /\ calls = 0
    /\ FreshMemory
    /\ sm = NewSessionManager(schedule)
    /\ parsed = NoParse
    /\ redis = "up"
    /\ store = <<>>

NextPersist == Tick \/ ControlStep \/ TimerStep \/ Crash \/ Boot

SpecPersist == InitPersist /\ [][NextPersist]_vars

--------------------------------------------------------------------------
\* Recovery from an arbitrary systemState hash

SnapshotSessions == {-1, 0, 1, Len(schedule) - 1, Len(schedule), 100, 101}
SnapshotEndTimes == {k * TicksPerSecond : k \in 0..3}
SnapshotStates == KnownStates \cup {"X"}
SnapshotRemaining == {-1, 0, Millis(1)}
RecoveryTimes == {TicksPerSecond, TicksPerSecond + 1}

Snapshots ==
    [currentSession : SnapshotSessions, endTime : SnapshotEndTimes,
     state : SnapshotStates, timeRemaining : SnapshotRemaining,
     isRunning : BOOLEAN, isPaused : BOOLEAN]

InitRecovery ==
    /\ now \in RecoveryTimes
    /\ up = FALSE
    /\ crashes = 0
    /\ calls = 0
    /\ FreshMemory
    /\ sm = NewSessionManager(schedule)
    /\ parsed = NoParse
    /\ redis \in {"up", "flaky"}
    /\ store \in {<<>>} \cup {<<s>> : s \in Snapshots}

NextRecovery == Boot

SpecRecovery == InitRecovery /\ [][NextRecovery]_vars

--------------------------------------------------------------------------
\* A reader of GetTimeRemaining (redis_persistence.go:443-455), which takes no
\* lock: each field is read on its own

Read_Timer ==
    /\ up /\ rd.pc = "idle"
    /\ rd' = IF tm.timer = 0
             THEN [RdIdle EXCEPT !.pc = "done", !.res = tm.timeRemaining,
                                 !.bound = tm.sessionDuration]
             ELSE [RdIdle EXCEPT !.pc = "elapsed"]
    /\ UNCHANGED <<now, up, crashes, calls, state, currentSession, history, stats,
                   tm, timers, hs, ctl, saveTicker, notified, redis, store, boot, sm, tl, completions, ps, parsed>>

Read_Elapsed ==
    /\ rd.pc = "elapsed"
    /\ rd' = [rd EXCEPT !.pc = "compare", !.elapsed = now - tm.startTime]
    /\ UNCHANGED <<now, up, crashes, calls, state, currentSession, history, stats,
                   tm, timers, hs, ctl, saveTicker, notified, redis, store, boot, sm, tl, completions, ps, parsed>>

Read_Compare ==
    /\ rd.pc = "compare"
    /\ rd' = IF rd.elapsed >= tm.sessionDuration
             THEN [RdIdle EXCEPT !.pc = "done", !.res = 0,
                                 !.bound = tm.sessionDuration]
             ELSE [rd EXCEPT !.pc = "subtract", !.dur = tm.sessionDuration]
    /\ UNCHANGED <<now, up, crashes, calls, state, currentSession, history, stats,
                   tm, timers, hs, ctl, saveTicker, notified, redis, store, boot, sm, tl, completions, ps, parsed>>

\* The unsynchronized second read of tm.sessionDuration yields the value the
\* comparison loaded or the field's value now
Read_Subtract ==
    /\ rd.pc = "subtract"
    /\ \E d \in {rd.dur, tm.sessionDuration} :
          rd' = [RdIdle EXCEPT !.pc = "done", !.res = d - rd.elapsed,
                               !.bound = tm.sessionDuration]
    /\ UNCHANGED <<now, up, crashes, calls, state, currentSession, history, stats,
                   tm, timers, hs, ctl, saveTicker, notified, redis, store, boot, sm, tl, completions, ps, parsed>>

Read_Return ==
    /\ rd.pc = "done"
    /\ rd' = RdIdle
    /\ UNCHANGED <<now, up, crashes, calls, state, currentSession, history, stats,
                   tm, timers, hs, ctl, saveTicker, notified, redis, store, boot, sm, tl, completions, ps, parsed>>

ReadStep == Read_Timer \/ Read_Elapsed \/ Read_Compare \/ Read_Subtract \/ Read_Return

NextRead == Tick \/ ControlStep \/ TimerStep \/ ReadStep

SpecRead == Init /\ [][NextRead]_vars

--------------------------------------------------------------------------
\* A tickerLoop goroutine (redis_persistence.go:496-514).  StartTimer and
\* ResumeTimer each launch one; the model follows one of them at a time.

\* ticker := tm.ticker
TL_Capture ==
    /\ up /\ tl.pc = "idle"
    /\ tm.ticker # 0
    /\ tl' = [TlIdle EXCEPT !.pc = "select", !.id = tm.ticker]
    /\ UNCHANGED <<now, up, crashes, calls, state, currentSession, history, stats,
                   tm, timers, hs, ctl, rd, saveTicker, notified, redis, store, boot,
                   sm, completions, ps, parsed>>

\* case <-ticker.C: the captured ticker has not been stopped
TL_Tick ==
    /\ tl.pc = "select"
    /\ tm.ticker = tl.id
    /\ tl' = [tl EXCEPT !.pc = "check"]
    /\ UNCHANGED <<now, up, crashes, calls, state, currentSession, history, stats,
                   tm, timers, hs, ctl, rd, saveTicker, notified, redis, store, boot,
                   sm, completions, ps, parsed>>

\* if tm.onTick != nil && tm.timer != nil, read without tm.mu
TL_Check ==
    /\ tl.pc = "check"
    /\ tl' = [tl EXCEPT !.pc = IF tm.timer # 0 THEN "remaining" ELSE "select"]
    /\ UNCHANGED <<now, up, crashes, calls, state, currentSession, history, stats,
                   tm, timers, hs, ctl, rd, saveTicker, notified, redis, store, boot,
                   sm, completions, ps, parsed>>

\* remaining := tm.GetTimeRemaining()
TL_GetTimeRemaining ==
    /\ tl.pc = "remaining"
    /\ tl' = [tl EXCEPT !.pc = "deliver", !.rem = TimeRemainingOf(tm, now)]
    /\ UNCHANGED <<now, up, crashes, calls, state, currentSession, history, stats,
                   tm, timers, hs, ctl, rd, saveTicker, notified, redis, store, boot,
                   sm, completions, ps, parsed>>

\* tm.onTick(remaining): the tick notification is delivered
TL_OnTick ==
    /\ tl.pc = "deliver"
    /\ tl' = [tl EXCEPT !.pc = "select", !.rem = 0]
    /\ UNCHANGED <<now, up, crashes, calls, state, currentSession, history, stats,
                   tm, timers, hs, ctl, rd, saveTicker, notified, redis, store, boot,
                   sm, completions, ps, parsed>>

\* case <-tm.ctx.Done(): the context tm.ctx now points to has been cancelled
TL_Done ==
    /\ tl.pc = "select"
    /\ ~tm.cancel
    /\ tl' = TlIdle
    /\ UNCHANGED <<now, up, crashes, calls, state, currentSession, history, stats,
                   tm, timers, hs, ctl, rd, saveTicker, notified, redis, store, boot,
                   sm, completions, ps, parsed>>

TickerStep ==
    TL_Capture \/ TL_Tick \/ TL_Check \/ TL_GetTimeRemaining \/ TL_OnTick \/ TL_Done

NextTicker == Tick \/ ControlStep \/ TimerStep \/ TickerStep

SpecTicker == Init /\ [][NextTicker]_vars

--------------------------------------------------------------------------
\* The goroutine of runSaveStateToRedis (clock_runner.go:466-494) and its
\* SaveSystemStateToRedis (redis_persistence.go:600-653).  It takes no lock:
\* each read is a step of its own.

\* case <-cr.redisSaveTicker.C: cr.redisPersistence != nil && !cr.IsIdle()
PS_Tick ==
    /\ up /\ ps.pc = "idle"
    /\ saveTicker /\ redis # "none"
    /\ ~IsIdleS(state)
    /\ ps.n < MaxSaves
    /\ ps' = [PsIdle EXCEPT !.pc = "state", !.n = ps.n + 1]
    /\ UNCHANGED <<now, up, crashes, calls, state, currentSession, history, stats,
                   tm, timers, hs, ctl, rd, saveTicker, notified, redis, store, boot,
                   sm, tl, completions, parsed>>

\* currentState := GetState()
PS_GetState ==
    /\ ps.pc = "state"
    /\ ps' = [ps EXCEPT !.pc = "remaining", !.st = state]
    /\ UNCHANGED <<now, up, crashes, calls, state, currentSession, history, stats,
                   tm, timers, hs, ctl, rd, saveTicker, notified, redis, store, boot,
                   sm, tl, completions, parsed>>

\* timeRemaining := GetTimeRemaining()
PS_GetTimeRemaining ==
    /\ ps.pc = "remaining"
    /\ ps' = [ps EXCEPT !.pc = "running", !.rem = TimeRemainingOf(tm, now)]
    /\ UNCHANGED <<now, up, crashes, calls, state, currentSession, history, stats,
                   tm, timers, hs, ctl, rd, saveTicker, notified, redis, store, boot,
                   sm, tl, completions, parsed>>

\* isRunning := IsRunning()
PS_IsRunning ==
    /\ ps.pc = "running"
    /\ ps' = [ps EXCEPT !.pc = "paused", !.run = IsRunning(state, tm)]
    /\ UNCHANGED <<now, up, crashes, calls, state, currentSession, history, stats,
                   tm, timers, hs, ctl, rd, saveTicker, notified, redis, store, boot,
                   sm, tl, completions, parsed>>

\* isPaused := IsPaused()
PS_IsPaused ==
    /\ ps.pc = "paused"
    /\ ps' = [ps EXCEPT !.pc = "session", !.paused = IsPausedS(state)]
    /\ UNCHANGED <<now, up, crashes, calls, state, currentSession, history, stats,
                   tm, timers, hs, ctl, rd, saveTicker, notified, redis, store, boot,
                   sm, tl, completions, parsed>>

\* CurrentSession: GetCurrentSession()
PS_GetCurrentSession ==
    /\ ps.pc = "session"
    /\ ps' = [ps EXCEPT !.pc = "write", !.cs = currentSession]
    /\ UNCHANGED <<now, up, crashes, calls, state, currentSession, history, stats,
                   tm, timers, hs, ctl, rd, saveTicker, notified, redis, store, boot,
                   sm, tl, completions, parsed>>

\* redisPersistence.SaveSystemState(state)
PS_SaveSystemState ==
    /\ ps.pc = "write"
    /\ \E ok \in Outcomes :
          store' = IF ok
                   THEN <<SystemStateOf(ps.st, ps.rem, ps.run, ps.paused, ps.cs, now)>>
                   ELSE store
    /\ ps' = [PsIdle EXCEPT !.n = ps.n]
    /\ UNCHANGED <<now, up, crashes, calls, state, currentSession, history, stats,
                   tm, timers, hs, ctl, rd, saveTicker, notified, redis, boot,
                   sm, tl, completions, parsed>>

SaverStep ==
    \/ PS_Tick \/ PS_GetState \/ PS_GetTimeRemaining \/ PS_IsRunning \/ PS_IsPaused
    \/ PS_GetCurrentSession \/ PS_SaveSystemState

NextSaver == Tick \/ ControlStep \/ TimerStep \/ SaverStep

SpecSaver == InitPersist /\ [][NextSaver]_vars

--------------------------------------------------------------------------
\* A reader of GetCurrentSession (clock_runner.go:309-311, part_006:51-55),
\* which takes no lock: it loads sm.currentSession as it is at that moment

GetCurrentSession_Read ==
    /\ up /\ rd.pc = "idle"
    /\ rd' = [RdIdle EXCEPT !.pc = "session", !.res = currentSession,
                            !.bound = GetTotalSessions]
    /\ UNCHANGED <<now, up, crashes, calls, state, currentSession, history, stats,
                   tm, timers, hs, ctl, saveTicker, notified, redis, store, boot, sm, tl, completions, ps, parsed>>

GetCurrentSession_Return ==
    /\ rd.pc = "session"
    /\ rd' = RdIdle
    /\ UNCHANGED <<now, up, crashes, calls, state, currentSession, history, stats,
                   tm, timers, hs, ctl, saveTicker, notified, redis, store, boot, sm, tl, completions, ps, parsed>>

NextSessionRead ==
    Tick \/ ControlStep \/ TimerStep \/ GetCurrentSession_Read \/ GetCurrentSession_Return

SpecSessionRead == Init /\ [][NextSessionRead]_vars

--------------------------------------------------------------------------
\* synchronizeStateTimer (clock_runner.go:426-447) called on a running engine.
\* It holds cr.mu; the phase read into stateRunning is kept in ctl.ph.

Sync ==
    /\ up /\ ctl.pc = "idle"
    /\ calls < MaxCalls
    /\ calls' = calls + 1
    /\ ctl' = [CtlIdle EXCEPT !.pc = "sy_timer", !.op = "Sync", !.ph = state]
    /\ UNCHANGED <<now, up, crashes, state, currentSession, history, stats, tm, timers,
                   hs, rd, saveTicker, notified, redis, store, boot, sm, tl, completions,
                   ps, parsed>>

\* timerRunning := cr.timerManager.IsRunning(), and the two tests on the locals
Sync_TimerIsRunning ==
    /\ ctl.pc = "sy_timer"
    /\ ctl' = [ctl EXCEPT !.tr = TimerIsRunning(tm),
                          !.pc = IF IsRunningS(ctl.ph) /\ ~TimerIsRunning(tm)
                                 THEN "sy_state"
                                 ELSE IF ~IsRunningS(ctl.ph) /\ TimerIsRunning(tm)
                                 THEN "sy_stop" ELSE "sy_done"]
    /\ UNCHANGED <<now, up, crashes, calls, state, currentSession, history, stats, tm,
                   timers, hs, rd, saveTicker, notified, redis, store, boot, sm, tl,
                   completions, ps, parsed>>

\* GetState() != StatePaused, SetState(StateIdle), onStateChange(StateIdle)
Sync_FixState ==
    /\ ctl.pc = "sy_state"
    /\ IF state # StatePaused
       THEN state' = StateIdle /\ notified' = StateIdle
       ELSE UNCHANGED <<state, notified>>
    /\ ctl' = [ctl EXCEPT !.pc = "sy_done"]
    /\ UNCHANGED <<now, up, crashes, calls, currentSession, history, stats, tm, timers,
                   hs, rd, saveTicker, redis, store, boot, sm, tl, completions, ps, parsed>>

\* cr.timerManager.StopTimer()
Sync_StopTimer ==
    /\ ctl.pc = "sy_stop"
    /\ LET w == stopTimer(tm, timers)
       IN tm' = w.tm /\ timers' = w.timers
    /\ ctl' = [ctl EXCEPT !.pc = "sy_done"]
    /\ UNCHANGED <<now, up, crashes, calls, state, currentSession, history, stats, hs, rd,
                   saveTicker, notified, redis, store, boot, sm, tl, completions, ps, parsed>>

\* The deferred cr.mu.Unlock()
Sync_Return ==
    /\ ctl.pc = "sy_done"
    /\ ctl' = Ret("Sync", FALSE)
    /\ UNCHANGED <<now, up, crashes, calls, state, currentSession, history, stats, tm,
                   timers, hs, rd, saveTicker, notified, redis, store, boot, sm, tl,
                   completions, ps, parsed>>

SyncStep == Sync \/ Sync_TimerIsRunning \/ Sync_FixState \/ Sync_StopTimer \/ Sync_Return

NextSync == Tick \/ ControlStep \/ TimerStep \/ SyncStep

SpecSync == Init /\ [][NextSync]_vars

--------------------------------------------------------------------------
\* A SessionManager on its own: any accepted schedule of up to MaxLen
\* entries, and its methods called one after another by a single caller

Schedules == UNION {[1..n -> ActiveStates] : n \in 1..MaxLen}
SessionArgs == -1..(MaxLen + 1)
MaxAdvance == MaxLen + 1

\* The tags a caller can put in a sequence: the five declared for ClockState
Tags == {StateIdle, StateWorking, StateShortBreak, StateLongBreak, StatePaused}
MaxSeq == 2
TagSeqs == UNION {[1..n -> Tags] : n \in 0..MaxSeq}

InitSession ==
    /\ now = 0
    /\ up = FALSE
    /\ crashes = 0
    /\ calls = 0
    /\ FreshMemory
    /\ redis = "none"
    /\ store = <<>>
    /\ sm \in {NewSessionManager(sch) : sch \in Schedules}
    /\ parsed = NoParse

SM_NextSession ==
    /\ sm.k < MaxAdvance
    /\ LET nx == NextSessionOn(sm.schedule, sm.currentSession)
       IN sm' = [sm EXCEPT !.currentSession = nx.cur, !.seq = <<>>, !.op = "NextSession",
                           !.arg = 0, !.ret = nx.has,
                           !.k = IF sm.k < 0 THEN sm.k ELSE sm.k + 1]
    /\ UNCHANGED <<now, up, crashes, calls, state, currentSession, history, stats,
                   tm, timers, hs, ctl, rd, saveTicker, notified, redis, store, boot,
                   tl, completions, ps, parsed>>

SM_ResetSessions ==
    /\ sm' = [sm EXCEPT !.currentSession = 0, !.seq = <<>>, !.op = "ResetSessions",
                        !.arg = 0, !.ret = FALSE, !.k = 0]
    /\ UNCHANGED <<now, up, crashes, calls, state, currentSession, history, stats,
                   tm, timers, hs, ctl, rd, saveTicker, notified, redis, store, boot,
                   tl, completions, ps, parsed>>

SM_SetCurrentSession ==
    /\ \E i \in SessionArgs :
          sm' = [sm EXCEPT !.currentSession = SetCurrentSessionOn(sm.schedule, i),
                           !.op = "SetCurrentSession", !.arg = i, !.seq = <<>>,
                           !.ret = FALSE, !.k = -1]
    /\ UNCHANGED <<now, up, crashes, calls, state, currentSession, history, stats,
                   tm, timers, hs, ctl, rd, saveTicker, notified, redis, store, boot,
                   tl, completions, ps, parsed>>

SM_SetSchedule ==
    /\ \E seq \in TagSeqs :
          LET r == SetScheduleOn(sm.schedule, sm.currentSession, seq)
          IN sm' = [sm EXCEPT !.schedule = r.schedule, !.currentSession = r.cur,
                              !.op = "SetSchedule", !.arg = 0, !.seq = seq,
                              !.ret = r.err, !.k = IF r.err THEN sm.k ELSE 0]
    /\ UNCHANGED <<now, up, crashes, calls, state, currentSession, history, stats,
                   tm, timers, hs, ctl, rd, saveTicker, notified, redis, store, boot,
                   tl, completions, ps, parsed>>

NextSM == SM_NextSession \/ SM_ResetSessions \/ SM_SetCurrentSession

SpecSession == InitSession /\ [][NextSM]_vars

\* The schedule replaced at any cursor
NextSetSchedule == SM_SetCurrentSession \/ SM_SetSchedule

SpecSetSchedule == InitSession /\ [][NextSetSchedule]_vars

--------------------------------------------------------------------------
\* ParseScheduling (utils.go:203-220) on strings of up to MaxStr characters

\* ClockStateMap (clock_runner.go:21-27), keyed by the token's characters
ClockStateMap ==
    (<<"I">> :> StateIdle) @@ (<<"W">> :> StateWorking)
        @@ (<<"S", "B">> :> StateShortBreak) @@ (<<"L", "B">> :> StateLongBreak)
        @@ (<<"P">> :> StatePaused)

\* strings.ReplaceAll(s, c, "") for the three whitespace characters
RemoveWhitespace(str) == SelectSeq(str, LAMBDA c : c \notin {" ", "\n", "\t"})

\* strings.Split(s, "-"): the pieces between the separators, one empty piece
\* for the empty string
RECURSIVE Split(_)
Split(str) ==
    IF \A j \in 1..Len(str) : str[j] # "-"
    THEN <<str>>
    ELSE LET j == CHOOSE i \in 1..Len(str) :
                      str[i] = "-" /\ \A l \in 1..(i - 1) : str[l] # "-"
         IN <<SubSeq(str, 1, j - 1)>> \o Split(SubSeq(str, j + 1, Len(str)))

ParseScheduling(str) ==
    LET tokens == Split(RemoveWhitespace(str))
    IN IF \E j \in 1..Len(tokens) : tokens[j] \notin DOMAIN ClockStateMap
       THEN [schedule |-> <<>>, err |-> TRUE]
       ELSE [schedule |-> [j \in 1..Len(tokens) |-> ClockStateMap[tokens[j]]],
             err |-> FALSE]

MaxStr == 4
Chars == {"W", "S", "B", "L", "I", "P", "-", " "}
Strings == UNION {[1..n -> Chars] : n \in 0..MaxStr}

InitParse ==
    /\ now = 0
    /\ up = FALSE
    /\ crashes = 0
    /\ calls = 0
    /\ FreshMemory
    /\ redis = "none"
    /\ store = <<>>
    /\ sm = NewSessionManager(schedule)
    /\ parsed \in {[NoParse EXCEPT !.pc = "call", !.str = str] : str \in Strings}

ParseScheduling_Call ==
    /\ parsed.pc = "call"
    /\ LET r == ParseScheduling(parsed.str)
       IN parsed' = [parsed EXCEPT !.pc = "ret", !.schedule = r.schedule, !.err = r.err]
    /\ UNCHANGED <<now, up, crashes, calls, state, currentSession, history, stats,
                   tm, timers, hs, ctl, rd, saveTicker, notified, redis, store, boot,
                   sm, tl, completions, ps>>

SpecParse == InitParse /\ [][ParseScheduling_Call]_vars

--------------------------------------------------------------------------
\* One Start from Idle and no other control call: the schedule runs by its
\* deadlines.  Goroutines that can run do run, and the clock advances.

CycleStart == calls = 0 /\ now <= Slack /\ Start

NextCycle ==
    \/ CycleStart \/ Start_ResetSessions \/ Ctl_SetSessionState \/ Ctl_StartTimer
    \/ Ctl_NotifyAndSave \/ Start_RunSave \/ Return
    \/ CycleTick \/ TimerStep

SpecCycle == Init /\ [][NextCycle]_vars /\ WF_vars(NextCycle)

--------------------------------------------------------------------------
\* Properties

NoTimerArmed == \A i \in 1..MaxTimers : ~timers[i].armed
TimerStopped == tm.timer = 0 /\ NoTimerArmed

\* A control operation the lifecycle phase s does not allow
Illegal(op, s) ==
    \/ op = "Start" /\ s \in ActiveStates
    \/ op = "Pause" /\ s \in {StateIdle, StatePaused}
    \/ op = "Stop" /\ s = StateIdle
    \/ op = "Skip" /\ s = StateIdle

\* The caller has not yet passed the operation's legality check
Checking == ctl.pc \in {"idle", "sk_paused"}

\* C1: a control operation invoked in a phase that does not allow it returns
\* an error at once and leaves the phase, the cursor, the timer and the
\* statistics as they were.
C1_IllegalRejected ==
    [][(Checking /\ ~Checking' /\ Illegal(ctl'.op, state))
          => /\ ctl'.pc = "ret" /\ ctl'.err
             /\ UNCHANGED <<state, currentSession, tm, timers, history, stats>>]_vars

C1_Witness ==
    /\ ctl.pc = "ret" /\ ctl.err /\ ctl.op = "Pause"
    /\ state = StatePaused /\ tm.timeRemaining > 0

StopReturned == ctl.pc = "ret" /\ ctl.op = "Stop" /\ ~ctl.err

\* C2: from the return of a successful Stop() on, as long as the caller issues
\* nothing else, the phase is Idle, the cursor is 0 and the history does not
\* grow.
C2_StopIsFinal ==
    [][(StopReturned /\ StopReturned')
          => (state' = StateIdle /\ currentSession' = 0 /\ history' = history)]_vars

CallbackPcs == {"record", "next", "next_wrap", "wrap", "sns_set", "sns_timer", "sns_save"}

\* C3: the completion path and a control operation exclude each other: no
\* completion callback is between its steps while a control operation holds
\* cr.mu.
C3_CompletionUnderLock ==
    ~(CrMuHeld /\ \E h \in Handlers : hs[h].pc \in CallbackPcs)

RECURSIVE CountOf(_, _)
CountOf(seq, tag) ==
    IF seq = <<>> THEN 0
    ELSE (IF Head(seq) = tag THEN 1 ELSE 0) + CountOf(Tail(seq), tag)

IsPrefix(a, b) == Len(a) <= Len(b) /\ a = SubSeq(b, 1, Len(a))

CycleDone ==
    /\ state = StateIdle /\ currentSession = 0
    /\ history = schedule
    /\ stats = [work |-> CountOf(schedule, StateWorking),
                short |-> CountOf(schedule, StateShortBreak),
                long |-> CountOf(schedule, StateLongBreak)]
    /\ HandlersBusy = {} /\ NoTimerArmed

\* C4: after one Start() from Idle and no other control call, the completed
\* phases are always the schedule's entries in order, and the engine reaches
\* Idle with cursor 0 and one completion per schedule entry.
C4_FullCycle ==
    /\ [](IsPrefix(history, schedule))
    /\ (calls = 1) ~> CycleDone

C4_Witness == calls = 1 /\ CycleDone /\ now = MaxTime - Slack

PausedSnapshot(st) ==
    /\ st # <<>>
    /\ st[1].state = StatePaused /\ st[1].isPaused /\ st[1].timeRemaining > 0

\* C5: a restart that loads the snapshot of a paused session before its
\* endTime restores Paused at the snapshot's cursor.
C5_PausedSurvivesRestart ==
    [][(~up /\ up' /\ boot'.res = "loaded" /\ PausedSnapshot(store)
          /\ store[1].endTime > now)
          => (state' = StatePaused /\ currentSession' = store[1].currentSession)]_vars

Loaded == up /\ boot.snap # <<>>
Snap == boot.snap[1]

\* C6: recovery from a snapshot whose endTime is before the time of recovery
\* ends Idle at cursor 0 with no timer.
C6_StaleSnapshotIdle ==
    (Loaded /\ Snap.endTime < boot.at)
        => (state = StateIdle /\ currentSession = 0 /\ TimerStopped)

C6_Witness ==
    /\ Loaded /\ boot.res = "loaded" /\ Snap.endTime < boot.at
    /\ Snap.state = StateWorking /\ Snap.isRunning /\ Snap.currentSession = 1
    /\ state = StateIdle

InRange(i) == 0 <= i /\ i < Len(schedule)

RunningSnapshot ==
    /\ Loaded /\ boot.res = "loaded"
    /\ Snap.state \in ActiveStates /\ InRange(Snap.currentSession)
    /\ Snap.isRunning /\ ~Snap.isPaused
    /\ Snap.endTime > boot.at

\* C7: recovery from a running snapshot with time left restores its phase and
\* cursor with the timer running for endTime - now and periodic persistence on.
C7_ResumeRunning ==
    RunningSnapshot
        => /\ state = Snap.state /\ currentSession = Snap.currentSession
           /\ IsRunning(state, tm)
           /\ timers[tm.timer].armed /\ timers[tm.timer].dl = Snap.endTime
           /\ TimeRemainingOf(tm, boot.at) = Snap.endTime - boot.at
           /\ saveTicker

C7_Witness ==
    /\ RunningSnapshot /\ Snap.state = StateShortBreak /\ Snap.currentSession = 1
    /\ state = StateShortBreak /\ TimeRemainingOf(tm, now) > 0

PausedFlagSnapshot ==
    /\ Loaded /\ boot.res = "loaded"
    /\ Snap.state \in ActiveStates /\ InRange(Snap.currentSession)
    /\ Snap.isPaused /\ ~Snap.isRunning
    /\ Snap.endTime > boot.at

\* C8: recovery from a paused snapshot with time left restores Paused at its
\* cursor with the timer stopped and the remaining time frozen at endTime - now.
C8_ResumePaused ==
    PausedFlagSnapshot
        => /\ state = StatePaused /\ currentSession = Snap.currentSession
           /\ TimerStopped
           /\ tm.timeRemaining = Snap.endTime - boot.at
           /\ tm.timeRemaining > 0

C8_Witness ==
    /\ PausedFlagSnapshot /\ Snap.currentSession = Len(schedule) - 1
    /\ state = StatePaused /\ tm.timeRemaining > 0

\* A snapshot the load-time rules call inconsistent
Inconsistent(s) ==
    \/ ~InRange(s.currentSession)
    \/ s.state \notin KnownStates
    \/ s.state = StateIdle /\ (s.isRunning \/ s.isPaused \/ s.timeRemaining > 0)
    \/ s.state = StatePaused /\ ~s.isPaused
    \/ s.isRunning /\ s.isPaused

\* C9: recovery ends Idle at cursor 0 with the timer stopped when the load
\* fails, when the store holds no snapshot, and when the snapshot is
\* inconsistent.
C9_FallbackIdle ==
    (up /\ boot.res # "none"
        /\ (boot.res = "failed" \/ boot.snap = <<>> \/ Inconsistent(Snap)))
        => (state = StateIdle /\ currentSession = 0 /\ TimerStopped)

\* C10: every value GetTimeRemaining returns lies between 0 and the duration
\* the timer was started with.
C10_RemainingInRange ==
    rd.pc = "done" => (0 <= rd.res /\ rd.res <= rd.bound)

\* C11: when a successful Stop() has returned, GetTimeRemaining() reads 0.
C11_StopClearsRemaining ==
    StopReturned => TimeRemainingOf(tm, now) = 0

\* C12: the step on which a successful Stop() returns leaves the phase Idle,
\* the cursor 0 and the timer not running, with Idle the phase last passed to
\* the on-phase-change callback.
C12_StopPostcondition ==
    [][(ctl.pc # "ret" /\ ctl'.pc = "ret" /\ ctl'.op = "Stop" /\ ~ctl'.err)
          => /\ state' = StateIdle /\ IsIdleS(state')
             /\ currentSession' = 0
             /\ ~IsRunning(state', tm')
             /\ notified' = StateIdle]_vars

\* The engine rests in Paused: Pause() has returned and no operation and no
\* completion callback is in progress
PausedAtRest ==
    /\ state = StatePaused
    /\ ctl.pc = "idle" \/ (ctl.pc = "ret" /\ ctl.op = "Pause")
    /\ HandlersBusy = {}

NoTimerDue == \A i \in 1..MaxTimers : timers[i].armed => timers[i].dl > now

\* Pause() reaches PauseTimer before the deadline of the phase it pauses: no
\* deadline is due and no completion callback is in progress
PausesBeforeDeadline ==
    /\ ctl.pc = "pa_timer" /\ ctl'.pc = "pa_save"
    /\ state = StatePaused
    /\ NoTimerDue /\ HandlersBusy = {}

\* C13: a Pause() that comes before the phase deadline leaves a remaining
\* time above 0 with the timer stopped, and while the engine rests in Paused
\* GetTimeRemaining() reads the same value before and after every step, clock
\* ticks included.
C13_PauseFreezes ==
    [][/\ PausesBeforeDeadline
            => (tm'.timer = 0 /\ TimeRemainingOf(tm', now') > 0)
       /\ (PausedAtRest /\ PausedAtRest')
            => TimeRemainingOf(tm', now') = TimeRemainingOf(tm, now)]_vars

\* C14: when a Start() called in Paused with remaining r > 0 has run its
\* ResumeTimer, the cursor is where it was, the phase is schedule[cursor],
\* IsRunning() is true and the remaining time is at most r.
C14_PauseThenResume ==
    (ctl.pc = "st_run" /\ ctl.r > 0)
        => /\ currentSession = ctl.cur
           /\ state = GetCurrentSessionState(currentSession)
           /\ IsRunning(state, tm)
           /\ TimeRemainingOf(tm, now) <= ctl.r

\* The step of Start() that runs ResumeTimer, with time left to resume
ResumesWithTimeLeft ==
    /\ ctl.pc = "rs_timer" /\ ctl'.pc = "st_run"
    /\ tm.timeRemaining > 0

\* C15: ResumeTimer with frozen remaining r > 0 arms the deadline r after the
\* resume and leaves the reported remaining time at r, whatever the length of
\* the pause.
C15_ResumeRebases ==
    [][ResumesWithTimeLeft
          => /\ tm'.timer # 0
             /\ timers'[tm'.timer].armed
             /\ timers'[tm'.timer].dl = now + tm.timeRemaining
             /\ TimeRemainingOf(tm', now') = tm.timeRemaining]_vars

\* Skip() was called in a running phase that is not the schedule's last and
\* has started the next timer; only its notification, save and return remain
SkipAdvanced ==
    /\ ctl.pc = "sns_save" /\ ctl.op = "Skip"
    /\ ctl.ph \in ActiveStates
    /\ ctl.cur < Len(schedule) - 1

\* C16: a Skip() called in a running phase at cursor i < len(schedule) - 1
\* leaves the cursor at i + 1, the phase at schedule[i + 1], a timer armed for
\* the whole duration of that phase, and exactly one more history record, that
\* of the skipped phase.
C16_SkipAdvances ==
    SkipAdvanced
        => /\ currentSession = ctl.cur + 1
           /\ state = GetCurrentSessionState(currentSession)
           /\ IsRunning(state, tm)
           /\ TimeRemainingOf(tm, now) = DurationOf(state)
           /\ timers[tm.timer].armed /\ timers[tm.timer].dl = now + DurationOf(state)
           /\ history = Append(SubSeq(history, 1, ctl.recs), ctl.ph)


\* C17: counting from cursor 0 on a schedule of length n, each of the first
\* n-1 calls of NextSession returns true and leaves the cursor at the number
\* of calls made, and the n-th call returns false and leaves the cursor at 0.
C17_NextSessionWraps ==
    (sm.op = "NextSession" /\ sm.k >= 1 /\ sm.k <= Len(sm.schedule))
        => IF sm.k < Len(sm.schedule)
           THEN sm.ret /\ sm.currentSession = sm.k
           ELSE ~sm.ret /\ sm.currentSession = 0

C17_Witness ==
    /\ sm.op = "NextSession" /\ Len(sm.schedule) = MaxLen
    /\ sm.k = Len(sm.schedule) /\ ~sm.ret /\ sm.currentSession = 0

\* C18: a GetCurrentSession() read made while control operations, the
\* completion callback or the wrap at the end of the schedule are in
\* progress returns an index from 0 to GetTotalSessions() - 1.
C18_SessionReadInRange ==
    rd.pc = "session" => (rd.res >= 0 /\ rd.res <= rd.bound - 1)

\* C19: SetCurrentSession(i) leaves the cursor at 0 when i is negative, at
\* n-1 when i is n or more, and at i otherwise.
C19_SetCurrentSessionClamps ==
    sm.op = "SetCurrentSession"
        => /\ sm.arg < 0 => sm.currentSession = 0
           /\ sm.arg >= Len(sm.schedule) => sm.currentSession = Len(sm.schedule) - 1
           /\ sm.arg \in 0..(Len(sm.schedule) - 1) => sm.currentSession = sm.arg

C19_Witness ==
    /\ sm.op = "SetCurrentSession" /\ Len(sm.schedule) = 2
    /\ sm.arg > Len(sm.schedule) /\ sm.currentSession = 1

\* The phases in which an operation is legal
Legal(op, s) ==
    \/ op = "Start" /\ s \in {StateIdle, StatePaused}
    \/ op = "Pause" /\ s \in {StateWorking, StateShortBreak, StateLongBreak}
    \/ op = "Skip" /\ s \in {StateWorking, StateShortBreak, StateLongBreak, StatePaused}
    \/ op = "Stop" /\ s # StateIdle

\* C20: whether a control operation succeeds depends on the phase alone:
\* Start succeeds exactly in Idle and Paused, Pause exactly in Working,
\* ShortBreak and LongBreak, Skip exactly in those three and Paused, Stop
\* exactly outside Idle.  An operation is refused only if the phase was one
\* that does not allow it when the operation was called (ctl.ph for Skip)
\* or when it was refused, and is accepted only in a phase that allows it.
C20_LegalityByPhase ==
    [][(Checking /\ ~Checking')
          => IF ctl'.pc = "ret" /\ ctl'.err
             THEN ~Legal(ctl'.op, state)
                     \/ (ctl.pc = "sk_paused" /\ ~Legal(ctl'.op, ctl.ph))
             ELSE Legal(ctl'.op, state)]_vars

\* C21: a phase that runs to its deadline gets its completion notification
\* once, and once the completion notification of a phase has been delivered
\* no tick notification of that phase's ticker loop is delivered.
C21_OneCompletionNoLateTick ==
    [][/\ \A h \in Handlers :
             (hs[h].pc = "enter" /\ hs'[h].pc = "record") => hs[h].ser \notin completions
       /\ (tl.pc = "deliver" /\ tl'.pc = "select") => tl.id \notin completions]_vars

ArmedTimers == {i \in 1..MaxTimers : timers[i].armed}

\* C22: at most one deadline timer is pending at any time, and when
\* StartTimer, ResumeTimer, PauseTimer or StopTimer has returned, no deadline
\* armed by an earlier start is pending: after a start only the timer just
\* armed, after a pause or a stop none.
C22_NoOrphanTimers ==
    [][/\ Cardinality(ArmedTimers') <= 1
       /\ tm'.made # tm.made => ArmedTimers' = {tm'.timer}
       /\ (ctl.pc \in {"pa_timer", "sp_timer"} /\ ctl'.pc # ctl.pc)
             => ArmedTimers' = {}]_vars

\* C23: the periodic persistence loop runs when Start() has returned, and
\* it does not run while the engine rests in Idle, whether Idle was reached
\* by Stop() or by the end of the cycle.
C23_NoSaveLoopWhileIdle ==
    /\ (ctl.pc = "ret" /\ ctl.op = "Start" /\ ~ctl.err) => saveTicker
    /\ (state = StateIdle /\ CtlQuiet /\ HandlersBusy = {}) => ~saveTicker

\* The consistency conditions a loaded snapshot is checked against
ConsistentSnapshot(s) ==
    /\ s.state = StateIdle => (~s.isRunning /\ ~s.isPaused /\ s.timeRemaining = 0)
    /\ s.state = StatePaused => s.isPaused
    /\ ~(s.isRunning /\ s.isPaused)
    /\ s.currentSession \in 0..(Len(schedule) - 1)

\* C24: every snapshot the engine has written to the store, by an immediate
\* save or by the periodic loop, has an Idle phase only with both flags
\* false and remaining 0, a Paused phase only with the paused flag, never
\* both flags, and a session index inside the schedule.
C24_SnapshotsConsistent ==
    store # <<>> => ConsistentSnapshot(store[1])

\* No control operation, completion or save is in progress
AtRest == CtlQuiet /\ HandlersBusy = {} /\ ps.pc = "idle"

\* C25: with a reachable store, when a control operation has returned and
\* nothing is in progress, the snapshot in the store has the phase and the
\* session index the engine has in memory: a periodic save that was in
\* flight during the operation has not replaced the newer snapshot by an
\* older state.
C25_StoreFollowsMemory ==
    (calls > 0 /\ AtRest /\ store # <<>>)
        => (store[1].state = state /\ store[1].currentSession = currentSession)

\* The caller's step that ends with a snapshot write
SaveSteps == {"sns_save", "st_run", "pa_save", "sp_save", "sk_idle"}

\* C26: a control operation whose snapshot write fails returns what it
\* returns when the write succeeds, no error, and the step that made the
\* write has the same effect on the engine's memory: the notification that
\* follows the write is delivered, the periodic loop is started or stopped,
\* and the phase, the cursor, the timer and the statistics are those the
\* operation has set; the same holds for the writes of a phase completion.
C26_PersistenceBestEffort ==
    [][/\ ((ctl.pc \in SaveSteps /\ ctl'.pc # ctl.pc)
          => /\ ctl'.pc = "ret" => ~ctl'.err
             /\ ctl.pc = "sns_save" /\ ctl.op = "Start" => ctl'.pc = "st_run"
             /\ ctl.pc = "pa_save" => notified' = StatePaused
             /\ ctl.pc \in {"sp_save", "sk_idle"} => notified' = StateIdle
             /\ ctl.pc = "st_run" => saveTicker'
             /\ ctl.pc = "sp_save" => ~saveTicker'
             /\ UNCHANGED <<currentSession, tm, timers, history, stats>>)
       /\ \A h \in Handlers :
             (hs[h].pc \in {"sns_save", "wrap"} /\ hs'[h].pc # hs[h].pc)
                => /\ hs'[h].pc = "reset"
                   /\ hs[h].pc = "wrap" => state' = StateIdle /\ notified' = StateIdle
                   /\ hs[h].pc = "sns_save" => UNCHANGED state
                   /\ UNCHANGED <<currentSession, tm, timers, history, stats>>]_vars

\* Pause() has returned without an error and the engine is Paused although
\* its snapshot write failed: the store still holds the Working snapshot
C26_Witness ==
    /\ ctl.pc = "ret" /\ ctl.op = "Pause" /\ ~ctl.err
    /\ state = StatePaused /\ notified = StatePaused /\ HandlersBusy = {}
    /\ store # <<>> /\ store[1].state = StateWorking

\* A sequence SetSchedule accepts: not empty, every tag one of W, SB, LB
ValidSchedule(seq) ==
    /\ Len(seq) > 0
    /\ \A j \in 1..Len(seq) : seq[j] \in {StateWorking, StateShortBreak, StateLongBreak}

\* C27: SetSchedule(seq) with an empty sequence, or with a tag other than
\* W, SB, LB in it, returns an error and leaves the schedule and the cursor
\* as they were; with a valid sequence it returns no error, the schedule is
\* the sequence and the cursor is 0.
C27_SetScheduleValidates ==
    [][(sm'.op = "SetSchedule" /\ sm' # sm)
          => IF ValidSchedule(sm'.seq)
             THEN ~sm'.ret /\ sm'.schedule = sm'.seq /\ sm'.currentSession = 0
             ELSE /\ sm'.ret
                  /\ sm'.schedule = sm.schedule
                  /\ sm'.currentSession = sm.currentSession]_vars

\* A two-phase schedule was accepted while the cursor was past its end and
\* the cursor is back at 0
C27_Witness ==
    /\ sm.op = "SetSchedule" /\ ~sm.ret /\ Len(sm.seq) = 2
    /\ sm.schedule = sm.seq /\ sm.currentSession = 0

\* A sequence with Paused in it was refused at cursor 2 of a schedule of 3
C27_WitnessRefused ==
    /\ sm.op = "SetSchedule" /\ sm.ret /\ Len(sm.seq) = 2 /\ sm.seq[2] = StatePaused
    /\ Len(sm.schedule) = 3 /\ sm.currentSession = 2

\* C28: ParseScheduling(s) returns an error, or a schedule that is not empty
\* and holds only W, SB and LB: the codes of Idle and Paused, an empty token
\* and an unknown token are parse errors.
C28_ParseYieldsValidSchedule ==
    parsed.pc = "ret" => (parsed.err \/ ValidSchedule(parsed.schedule))

\* Pause() has returned nil and the caller has made no call since
PauseReturned == ctl.pc = "ret" /\ ctl.op = "Pause" /\ ~ctl.err

\* C29: after a successful Pause(), and until the caller's next operation,
\* no deadline fires, the phase is and stays Paused, the cursor keeps its
\* value and no record is added to the statistics, whichever phase was
\* paused and however it was entered.
C29_NoCompletionWhilePaused ==
    [][PauseReturned
          => /\ state = StatePaused /\ state' = StatePaused
             /\ currentSession' = currentSession
             /\ history' = history /\ stats' = stats
             /\ \A i \in 1..MaxTimers : timers[i].armed => timers'[i].armed]_vars

\* C30: whatever recovery has loaded, it leaves phase, cursor and timer in
\* agreement: Idle with the cursor at 0 and no timer; Working, ShortBreak or
\* LongBreak equal to the schedule's entry at the cursor, with the timer
\* running and time remaining; Paused with no timer running and a frozen
\* remaining time above 0.
C30_RecoveredTripleConsistent ==
    (up /\ boot.res # "none")
        => /\ state = StateIdle => (currentSession = 0 /\ TimerStopped)
           /\ state \in ActiveStates
                 => /\ InRange(currentSession)
                    /\ state = GetCurrentSessionState(currentSession)
                    /\ tm.timer # 0 /\ timers[tm.timer].armed
                    /\ TimeRemainingOf(tm, now) > 0
           /\ state = StatePaused => (TimerStopped /\ tm.timeRemaining > 0)
           /\ state \in KnownStates

\* A valid paused snapshot of an active phase whose endTime is the time of
\* recovery: no time is left
PausedExpiredSnapshot ==
    /\ Loaded /\ boot.res = "loaded"
    /\ Snap.state \in ActiveStates /\ InRange(Snap.currentSession)
    /\ Snap.isPaused /\ ~Snap.isRunning /\ Snap.timeRemaining >= 0
    /\ Snap.endTime = boot.at

\* C31: recovery from a valid paused snapshot with no time left treats the
\* phase as completed: the cursor advances and the next phase starts with its
\* timer, or the engine is Idle at cursor 0 when the schedule wrapped; it is
\* not Paused without a timer.
C31_PausedExpiredCompletes ==
    PausedExpiredSnapshot
        => /\ state # StatePaused
           /\ IF NextSession(Snap.currentSession).has
              THEN /\ currentSession = Snap.currentSession + 1
                   /\ state = GetCurrentSessionState(currentSession)
                   /\ tm.timer # 0 /\ timers[tm.timer].armed
              ELSE state = StateIdle /\ currentSession = 0 /\ TimerStopped


\* A valid snapshot of an active phase with neither flag set and an endTime
\* not before the time of recovery
UnflaggedSnapshot ==
    /\ Loaded /\ boot.res = "loaded"
    /\ Snap.state \in ActiveStates /\ InRange(Snap.currentSession)
    /\ ~Snap.isPaused /\ ~Snap.isRunning
    /\ Snap.endTime >= boot.at

\* The snapshot's session resumed as running: its phase, its cursor, the
\* timer running until endTime, nothing recorded
ResumedAsRunning ==
    /\ state = Snap.state /\ currentSession = Snap.currentSession
    /\ tm.timer # 0 /\ timers[tm.timer].armed /\ timers[tm.timer].dl = Snap.endTime
    /\ history = <<>> /\ stats = NoStats

\* The snapshot's phase completed while offline: one record for it, the
\* cursor advanced and the next phase started, or Idle at cursor 0 after the
\* last entry of the schedule
CompletedOffline ==
    /\ history = <<Snap.state>> /\ stats = RecordSessionStats(NoStats, Snap.state)
    /\ IF NextSession(Snap.currentSession).has
       THEN /\ currentSession = Snap.currentSession + 1
            /\ state = GetCurrentSessionState(currentSession)
            /\ tm.timer # 0 /\ timers[tm.timer].armed
            /\ timers[tm.timer].dl = boot.at + GetCurrentSessionDuration(currentSession)
       ELSE state = StateIdle /\ currentSession = 0 /\ TimerStopped

\* C32 as stated: recovery from an active-phase snapshot with neither flag
\* set and an endTime not before now resumes the session as running when the
\* stored remaining time is above 0, and treats the phase as completed while
\* offline when the stored remaining time is 0.
C32_UnflaggedSnapshot ==
    UnflaggedSnapshot
        => /\ Snap.timeRemaining > 0 => ResumedAsRunning
           /\ Snap.timeRemaining = 0 => CompletedOffline

\* C32: recovery from an active-phase snapshot with neither flag set resumes
\* the session as running when the stored remaining time is above 0 and
\* endTime is after now; it treats the phase as completed while offline when
\* the stored remaining time is not above 0 or endTime equals now.
C32_UnflaggedSnapshotByDeadline ==
    UnflaggedSnapshot
        => IF Snap.timeRemaining > 0 /\ Snap.endTime > boot.at
           THEN ResumedAsRunning
           ELSE CompletedOffline

\* A Working snapshot at cursor 0 with neither flag, remaining time stored,
\* and endTime equal to the time of recovery was completed: ShortBreak runs
C32_Witness ==
    /\ UnflaggedSnapshot /\ Snap.timeRemaining > 0 /\ Snap.endTime = boot.at
    /\ Snap.state = StateWorking /\ Snap.currentSession = 0
    /\ state = StateShortBreak /\ currentSession = 1 /\ history = <<StateWorking>>

\* A ShortBreak snapshot with neither flag and time left is running again
C32_WitnessRunning ==
    /\ UnflaggedSnapshot /\ Snap.timeRemaining > 0 /\ Snap.endTime > boot.at
    /\ Snap.state = StateShortBreak /\ state = StateShortBreak
    /\ tm.timer # 0 /\ timers[tm.timer].armed


\* C33: the step of a Skip() that records the skipped phase appends the
\* schedule's entry at the cursor, an active phase tag, to the history and adds
\* one to the counter of that tag, also when the Skip() was made while Paused.
C33_SkipRecordsScheduleEntry ==
    [][(ctl.pc = "sk_record" /\ ctl'.pc # "sk_record")
          => /\ history' = Append(history, GetCurrentSessionState(currentSession))
             /\ history'[Len(history')] \in ActiveStates
             /\ stats' = RecordSessionStats(stats, GetCurrentSessionState(currentSession))
             /\ stats'.work + stats'.short + stats'.long
                    = stats.work + stats.short + stats.long + 1]_vars


\* An accepted Skip() that found the cursor on the last entry of the schedule
SkipOnLast == ctl.op = "Skip" /\ ctl.pc # "ret" /\ ctl.cur = Len(schedule) - 1

\* C34: a successful Skip() made with the cursor on the last entry of the
\* schedule starts no new phase and returns with the phase Idle, the cursor
\* 0, no timer running and Idle passed to the on-phase-change callback.
C34_SkipOnLastEndsCycle ==
    [][/\ (SkipOnLast /\ ctl.pc = "sk_next") => ctl'.pc # "sns_set"
       /\ (SkipOnLast /\ ctl'.pc = "ret")
             => /\ ~ctl'.err
                /\ state' = StateIdle /\ currentSession' = 0
                /\ tm'.timer = 0 /\ \A i \in 1..MaxTimers : ~timers'[i].armed
                /\ notified' = StateIdle]_vars


\* The lifecycle and the timer agree: the phase is active exactly when the
\* timer reports running
Agree == IsRunningS(state) <=> TimerIsRunning(tm)

Quiescent == up /\ CtlQuiet /\ HandlersBusy = {}

\* C36: at every quiescent point the phase is Working, ShortBreak or
\* LongBreak exactly when the timer reports running, and then
\* ClockRunner.IsRunning() is true and, before the deadline, the remaining
\* time is above 0; for the phase started by Start() and for every phase
\* entered by the natural completion of the one before.
C36_LifecycleTimerAgree ==
    Quiescent
        => /\ IsRunningS(state) <=> TimerIsRunning(tm)
           /\ IsRunningS(state) => IsRunning(state, tm)
           /\ (IsRunningS(state) /\ \A i \in 1..MaxTimers : timers[i].armed => timers[i].dl > now)
                 => TimeRemainingOf(tm, now) > 0


\* An accepted Skip() that has recorded the phase it skips and has not yet
\* advanced the cursor
SkipRecorded == ctl.op = "Skip" /\ ctl.pc = "sk_next"

\* C37: a phase instance is completed once: the phase an accepted Skip()
\* completes gets the one history record the Skip() appends and the one
\* cursor step the Skip() makes, none from a deadline callback running beside
\* it, and a deadline callback completes a phase no earlier than the
\* duration it was started with after its start.
C37_CompletedOnce ==
    [][/\ (SkipRecorded /\ ctl'.pc # ctl.pc)
             => (Len(history) = ctl.recs + 1 /\ currentSession = ctl.cur)
       /\ \A h \in Handlers :
             (hs[h].pc = "enter" /\ hs'[h].pc # "enter" /\ tm.onComplete # "nil")
                => now >= tm.startTime + tm.sessionDuration]_vars


\* C38: each per-type counter equals the number of history records with its
\* tag, the three counters add up to the length of the history, and a step
\* only appends to the history: the earlier records stay its prefix.
C38_StatsMatchHistory ==
    [][/\ stats'.work = CountOf(history', StateWorking)
       /\ stats'.short = CountOf(history', StateShortBreak)
       /\ stats'.long = CountOf(history', StateLongBreak)
       /\ stats'.work + stats'.short + stats'.long = Len(history')
       /\ Len(history') >= Len(history)
       /\ SubSeq(history', 1, Len(history)) = history]_vars


\* C39: every Start, Pause, Stop or Skip that was called returns, and every
\* goroutine the runtime started for a deadline finishes
\* handleSessionComplete, whatever the other threads hold when it starts and
\* although the completion callback starts the next timer itself.
C39_NoDeadlock ==
    /\ (ctl.pc # "idle") ~> (ctl.pc = "ret")
    /\ \A h \in Handlers : (hs[h].pc # "idle") ~> (hs[h].pc = "idle")

\* The callback of a fired deadline is about to start the next timer while a
\* Pause() holds cr.mu and is about to take tm.mu
C39_Witness ==
    /\ ctl.pc = "pa_timer"
    /\ \E h \in Handlers : hs[h].pc = "sns_timer"


\* C40: at every quiescent point after the first transition, the phase last
\* passed to the on-phase-change callback is the current phase, after any
\* sequence of Start (from Idle and from Paused), Pause, Stop, Skip and
\* natural completions.
C40_NotifiedTracksPhase ==
    (Quiescent /\ (notified # "none" \/ state # StateIdle)) => notified = state

====
